---- MODULE Spec2Model ----
(***************************************************************************)
(* Model of the drone simulation platform: the planners AStarPlanner       *)
(* (controller/astar_planner.py), RRT (controller/rrt_planner.py), RRTStar *)
(* (controller/rrt_star_planner.py) and PathPlannerWrapper                 *)
(* (controller/path_planner_wrapper.py); the tour solver                   *)
(* (data_processing/tsp_utils.py); trajectory synthesis and the elevation  *)
(* lookup of SimulationController (controller/simulation_controller.py);   *)
(* and the playback endpoints of main.py.                                  *)
(*                                                                         *)
(* Floating-point quantities (edge costs, g/f scores, RRT coordinates)     *)
(* are fixed-point integers in units of 1/Scale; a square root is the      *)
(* integer square root of the scaled radicand.                             *)
(***************************************************************************)
EXTENDS Integers, Sequences, FiniteSets, TLC

\* ------------------------------------------------------------------ bounds

\* fixed-point resolution: one unit of cost or of length is Scale
Scale == 1000
\* largest grid shape explored for A* (rows, columns)
NRows == 3
NCols == 3
\* elevation values are drawn from 0..MaxElev
MaxElev == 1
\* largest grid shape explored when an elevation field is present
ERows == 2
ECols == 3
\* at most this many occupied cells when an elevation field is present
MaxBlockedElev == 1
\* largest occupancy-grid shape explored for RRT (rows, columns)
RRTRows == 2
RRTCols == 2
\* max_iter is drawn from 1..MaxIter
MaxIter == 2
\* uniform samples are drawn from a lattice of SampleRes points per cell side
SampleRes == 2
\* largest grid shape handed to PathPlannerWrapper (rows, columns)
WRows == 2
WCols == 2
\* find_segment_path calls made on one wrapper
MaxCalls == 2
\* largest map shape explored for RRT* (rows, columns)
RSRows == 2
RSCols == 3
\* max_nodes is drawn from 2..RSMaxNodes
RSMaxNodes == 3
\* world samples are drawn from a lattice of WorldResX by WorldResY intervals
WorldResX == 2
WorldResY == 1
\* waypoint coordinates are drawn from 0..MaxCoord
MaxCoord == 1
\* waypoint lists hold up to MaxWaypoints waypoints
MaxWaypoints == 3
\* largest grid shape explored for trajectory synthesis (rows, columns)
SimRows == 2
SimCols == 2
\* run_simulation is given up to MaxSimWaypoints waypoint cells
MaxSimWaypoints == 3
\* the computation between two clock readings takes 0..MaxElapsedMs milliseconds
MaxElapsedMs == 0
\* the clock reading when run_simulation starts
ClockStart == 10
\* elevation lookup: grid rows, columns
DemRows == 2
DemCols == 2
\* elevation lookup: largest elevation
DemMaxElev == 2
\* elevation lookup: cells looked up beyond each side of the grid
DemMargin == 3
\* concurrent sampling: map rows, columns
ConcRows == 1
ConcCols == 2
\* concurrent sampling: max_iter of each call
ConcMaxIter == 2
\* concurrent sampling: the number of states of the generator
RngMod == 16
\* one planner, many calls: grid rows, columns (at most)
RuRows == 2
RuCols == 2
\* one planner, many calls: find_path calls made on the instance
RuMaxCalls == 3
\* playback: the table holds up to MaxTrace rows, of MaxPoints different points
MaxTrace == 3
MaxPoints == 3

\* Python values of mixed type: None, a list, an array
None == [none |-> TRUE]
List(items) == [items |-> items]
Array(f) == [array |-> f]

\* ------------------------------------------------------------------ numerics

Abs(x) == IF x < 0 THEN -x ELSE x

RECURSIVE SqrtBisect(_, _, _)
\* largest r in lo..hi with r*r <= n, given lo*lo <= n < (hi+1)*(hi+1)
SqrtBisect(n, lo, hi) ==
    IF lo >= hi THEN lo
    ELSE LET mid == (lo + hi + 1) \div 2
         IN  IF mid * mid <= n THEN SqrtBisect(n, mid, hi)
                               ELSE SqrtBisect(n, lo, mid - 1)

\* np.linalg.norm([dx, dy]) for integer offsets, in units of 1/Scale
NormMutNoDiag(dx, dy) == (Abs(dx) + Abs(dy)) * Scale
Norm(dx, dy) ==
    SqrtBisect((dx * dx + dy * dy) * Scale * Scale, 0, (Abs(dx) + Abs(dy)) * Scale)

\* ------------------------------------------------------------------ A*

VARIABLES
    grid,               \* AStarPlanner.grid: occupancy, 0 = free
    shape,              \* grid.shape = <<rows, cols>>
    elevation,          \* AStarPlanner.elevation: None or a field over the cells
    elevation_penalty,  \* AStarPlanner.elevation_penalty, in units of 1/Scale
    start, goal,        \* arguments of find_path
    open_set,           \* heap of <<f_score, node>>
    came_from,          \* node -> parent
    g_score,            \* node -> best known cost (absent = +inf)
    visited,            \* closed set
    result,             \* value returned by find_path (None or a path)
    iters,              \* number of iterations of the while loop executed
    pc                  \* "call" | "loop" | "done"

astarVars == <<grid, shape, elevation, elevation_penalty, start, goal,
               open_set, came_from, g_score, visited, result, iters, pc>>

Cells(sh) == (0 .. sh[1] - 1) \X (0 .. sh[2] - 1)

DirectionsMutOrthogonal == << <<0, 1>>, <<0, -1>>, <<1, 0>>, <<-1, 0>> >>
\* the eight offsets of get_neighbors, in source order
Directions ==
    << <<0, 1>>, <<0, -1>>, <<1, 0>>, <<-1, 0>>,
       <<1, 1>>, <<1, -1>>, <<-1, 1>>, <<-1, -1>> >>

InBounds(sh, n) == 0 <= n[1] /\ n[1] < sh[1] /\ 0 <= n[2] /\ n[2] < sh[2]

\* the guard of get_neighbors: destination in bounds and unoccupied
LegalMutNoOccupancy(g, sh, n) == InBounds(sh, n)
Legal(g, sh, n) == InBounds(sh, n) /\ g[n] = 0

\* elev_cost of a move (0 when there is no elevation field)
ElevCostMutSigned(elev, pen, cur, nb) ==
    IF elev = None THEN 0 ELSE pen * (elev.array[nb] - elev.array[cur])
ElevCost(elev, pen, cur, nb) ==
    IF elev = None THEN 0 ELSE pen * Abs(elev.array[nb] - elev.array[cur])

\* cost of one move: base_cost + elev_cost
EdgeCost(elev, pen, cur, nb) ==
    Norm(nb[1] - cur[1], nb[2] - cur[2]) + ElevCost(elev, pen, cur, nb)

\* the straight-line heuristic ||goal - neighbor||
Heuristic(gl, n) == Norm(gl[1] - n[1], gl[2] - n[2])

\* Python's tuple order on (f, (r, c))
TupleLess(a, b) ==
    \/ a[1] < b[1]
    \/ a[1] = b[1] /\ a[2][1] < b[2][1]
    \/ a[1] = b[1] /\ a[2][1] = b[2][1] /\ a[2][2] < b[2][2]

\* the entry heappop returns
HeapMinMutMax(h) == CHOOSE e \in h : \A o \in h : o = e \/ TupleLess(o, e)
HeapMin(h) == CHOOSE e \in h : \A o \in h : o = e \/ TupleLess(e, o)

\* tentative_g < g_score[neighbor], g_score defaulting to +inf
Improves(gs, n, tentative) == n \notin DOMAIN gs \/ tentative < gs[n]

Put(f, k, v) == [x \in DOMAIN f \cup {k} |-> IF x = k THEN v ELSE f[x]]

RECURSIVE ExpandFromMutAlwaysLink(_, _, _, _, _, _, _)
ExpandFromMutAlwaysLink(s, g, sh, elev, pen, gl, a) ==
    LET i == a.i
        current == a.current
    IN
    IF i > Len(Directions) THEN s
    ELSE
      LET nb == <<current[1] + Directions[i][1], current[2] + Directions[i][2]>>
          nxt == [a EXCEPT !.i = i + 1]
      IN
      IF ~Legal(g, sh, nb)
      THEN ExpandFromMutAlwaysLink(s, g, sh, elev, pen, gl, nxt)
      ELSE
        LET tentative_g == s.g_score[current] + EdgeCost(elev, pen, current, nb)
        IN  ExpandFromMutAlwaysLink(
               [open_set  |-> s.open_set \cup {<<tentative_g + Heuristic(gl, nb), nb>>},
                came_from |-> Put(s.came_from, nb, current),
                g_score   |-> Put(s.g_score, nb, tentative_g)],
               g, sh, elev, pen, gl, nxt)

RECURSIVE ExpandFrom(_, _, _, _, _, _, _)
\* the for loop over get_neighbors(current), from direction i on;
\* s = [open_set, came_from, g_score]
ExpandFrom(s, g, sh, elev, pen, gl, a) ==
    LET i == a.i
        current == a.current
        vis == a.visited
    IN
    IF i > Len(Directions) THEN s
    ELSE
      LET nb == <<current[1] + Directions[i][1], current[2] + Directions[i][2]>>
          nxt == [a EXCEPT !.i = i + 1]
      IN
      IF ~Legal(g, sh, nb) \/ nb \in vis
      THEN ExpandFrom(s, g, sh, elev, pen, gl, nxt)
      ELSE
        LET tentative_g == s.g_score[current] + EdgeCost(elev, pen, current, nb)
        IN
        IF Improves(s.g_score, nb, tentative_g)
        THEN ExpandFrom(
               [open_set  |-> s.open_set \cup {<<tentative_g + Heuristic(gl, nb), nb>>},
                came_from |-> Put(s.came_from, nb, current),
                g_score   |-> Put(s.g_score, nb, tentative_g)],
               g, sh, elev, pen, gl, nxt)
        ELSE ExpandFrom(s, g, sh, elev, pen, gl, nxt)

RECURSIVE WalkBack(_, _, _, _)
\* while current in came_from: path.append(current); current = came_from[current]
\* fuel bounds the walk by the number of parent links; a walk that outlives it
\* is on a cycle
WalkBack(cf, current, acc, fuel) ==
    IF current \notin DOMAIN cf THEN acc
    ELSE IF fuel = 0 THEN <<>>
    ELSE WalkBack(cf, cf[current], Append(acc, current), fuel - 1)

Reverse(s) == [i \in 1 .. Len(s) |-> s[Len(s) + 1 - i]]

\* path reconstruction at the goal: walk, append start, reverse
ReconstructMutNoReverse(cf, st, current) ==
    List(Append(WalkBack(cf, current, <<>>, Cardinality(DOMAIN cf)), st))
Reconstruct(cf, st, current) ==
    List(Reverse(Append(WalkBack(cf, current, <<>>, Cardinality(DOMAIN cf)), st)))

EmptyMap == [x \in {} |-> 0]

\* the locals of find_path, its return value and its position
\* ("call" | "loop" | "done"), as one record
Locals ==
    [open_set |-> open_set, came_from |-> came_from, g_score |-> g_score,
     visited |-> visited, result |-> result, iters |-> iters, pc |-> pc]

FreshLocals ==
    [open_set |-> {}, came_from |-> EmptyMap, g_score |-> EmptyMap,
     visited |-> {}, result |-> None, iters |-> 0, pc |-> "call"]

\* find_path up to the while loop: the trivial case, else the initial search state
EntryStateMutNoTrivial(s, st, gl) ==
    [s EXCEPT !.open_set = {<<0, st>>},
              !.came_from = EmptyMap,
              !.g_score = [x \in {st} |-> 0],
              !.visited = {},
              !.pc = "loop"]
EntryState(s, st, gl) ==
    IF st = gl
    THEN [s EXCEPT !.result = List(<<st>>), !.pc = "done"]
    ELSE [s EXCEPT !.open_set = {<<0, st>>},
                   !.came_from = EmptyMap,
                   !.g_score = [x \in {st} |-> 0],
                   !.visited = {},
                   !.pc = "loop"]

\* one iteration of `while open_set`, or the fall-through `return None`;
\* p = [grid, shape, elevation, elevation_penalty, start, goal]
LoopState(s, p) ==
    IF s.open_set = {}
    THEN [s EXCEPT !.result = None, !.pc = "done"]
    ELSE LET top == HeapMin(s.open_set)
             current == top[2]
             rest == s.open_set \ {top}
         IN  IF current = p.goal
             THEN [s EXCEPT !.open_set = rest,
                            !.iters = @ + 1,
                            !.result = Reconstruct(s.came_from, p.start, current),
                            !.pc = "done"]
             ELSE LET vis == s.visited \cup {current}
                      e == ExpandFrom(
                             [open_set |-> rest, came_from |-> s.came_from,
                              g_score |-> s.g_score],
                             p.grid, p.shape, p.elevation, p.elevation_penalty, p.goal,
                             [i |-> 1, current |-> current, visited |-> vis])
                  IN  [s EXCEPT !.open_set = e.open_set,
                                !.came_from = e.came_from,
                                !.g_score = e.g_score,
                                !.visited = vis,
                                !.iters = @ + 1]

RECURSIVE RunLoop(_, _)
RunLoop(s, p) == IF s.pc = "done" THEN s.result ELSE RunLoop(LoopState(s, p), p)

\* AStarPlanner.find_path as a function of the planner p.planner and the query
AStarFindPath(planner, st, gl) ==
    RunLoop(EntryState(FreshLocals, st, gl),
            [grid |-> planner.grid, shape |-> planner.shape,
             elevation |-> planner.elevation,
             elevation_penalty |-> planner.elevation_penalty,
             start |-> st, goal |-> gl])

SetLocals(s) ==
    /\ open_set' = s.open_set
    /\ came_from' = s.came_from
    /\ g_score' = s.g_score
    /\ visited' = s.visited
    /\ result' = s.result
    /\ iters' = s.iters
    /\ pc' = s.pc

\* the call of find_path reaches its while loop, or returns in the trivial case
FindPathEntry ==
    /\ pc = "call"
    /\ SetLocals(EntryState(Locals, start, goal))
    /\ UNCHANGED <<grid, shape, elevation, elevation_penalty, start, goal>>

\* the call of find_path runs one iteration of its while loop, or leaves it
FindPathLoop ==
    /\ pc = "loop"
    /\ SetLocals(LoopState(Locals,
                           [grid |-> grid, shape |-> shape, elevation |-> elevation,
                            elevation_penalty |-> elevation_penalty,
                            start |-> start, goal |-> goal]))
    /\ UNCHANGED <<grid, shape, elevation, elevation_penalty, start, goal>>

Shapes(r, c) == (1 .. r) \X (1 .. c)

\* the state at a call of find_path on a planner without elevation field
InitAStarCall ==
    /\ shape \in Shapes(NRows, NCols)
    /\ grid \in [Cells(shape) -> 0 .. 1]
    /\ elevation = None
    /\ elevation_penalty = Scale
    /\ start \in Cells(shape)
    /\ goal \in Cells(shape)
    /\ open_set = {}
    /\ came_from = EmptyMap
    /\ g_score = EmptyMap
    /\ visited = {}
    /\ result = None
    /\ iters = 0
    /\ pc = "call"

\* the state at a call of find_path on a planner with an elevation field
PenaltySet == {0, Scale \div 2, 2 * Scale}

InitAStarElevCall ==
    /\ shape \in Shapes(ERows, ECols)
    /\ grid \in {g \in [Cells(shape) -> 0 .. 1] :
                   Cardinality({n \in Cells(shape) : g[n] # 0}) <= MaxBlockedElev}
    /\ elevation \in {Array(f) : f \in [Cells(shape) -> 0 .. MaxElev]}
    /\ elevation_penalty \in PenaltySet
    /\ start \in Cells(shape)
    /\ goal \in Cells(shape)
    /\ open_set = {}
    /\ came_from = EmptyMap
    /\ g_score = EmptyMap
    /\ visited = {}
    /\ result = None
    /\ iters = 0
    /\ pc = "call"

\* no find_path call in progress
AStarIdle ==
    /\ shape = <<1, 1>>
    /\ grid = [n \in Cells(<<1, 1>>) |-> 0]
    /\ elevation = None
    /\ elevation_penalty = Scale
    /\ start = <<0, 0>>
    /\ goal = <<0, 0>>
    /\ open_set = {}
    /\ came_from = EmptyMap
    /\ g_score = EmptyMap
    /\ visited = {}
    /\ result = None
    /\ iters = 0
    /\ pc = "idle"

\* ------------------------------------------------------------------ RRT

VARIABLES
    rrt_map,      \* RRT.map: occupancy grid, 0 = free
    rrt_shape,    \* RRT.map.shape
    step_size,    \* RRT.step_size, in units of 1/Scale
    max_iter,     \* RRT.max_iter
    rrt_start,    \* RRT.start
    rrt_goal,     \* RRT.goal
    tree,         \* RRT.tree: dict node -> parent, [keys, parent]
    rrt_iter,     \* iterations of the plan loop started so far
    goal_hit,     \* a valid new point passed the goal test
    rrt_result,   \* value returned by find_path
    rrt_pc        \* "call" | "plan" | "done" | "hung"

rrtVars == <<rrt_map, rrt_shape, step_size, max_iter, rrt_start, rrt_goal,
             tree, rrt_iter, goal_hit, rrt_result, rrt_pc>>

\* a tree node stored as a dict value (the other value is None)
Node(p) == [node |-> p]

\* a Python dict: keys in insertion order, and the value of each key
EmptyDict == [keys |-> <<>>, parent |-> EmptyMap]
HasKey(d, k) == k \in DOMAIN d.parent
DictSet(d, k, v) ==
    [keys   |-> IF HasKey(d, k) THEN d.keys ELSE Append(d.keys, k),
     parent |-> Put(d.parent, k, v)]

\* the grid cell (row, col) as a point
CellPoint(c) == <<c[1] * Scale, c[2] * Scale>>

DistSq(a, b) == (a[1] - b[1]) * (a[1] - b[1]) + (a[2] - b[2]) * (a[2] - b[2])

\* the values random.uniform(0, n) is drawn from: the end point included
Uniform(n) == {(k * Scale) \div SampleRes : k \in 0 .. n * SampleRes}

\* sample_point: the goal, or a point uniform over the map extent
SamplePoints(sh, gl) == {gl} \cup (Uniform(sh[1]) \X Uniform(sh[2]))

\* nearest_neighbor: min over the keys in insertion order, the first minimum wins
NearestNeighbor(d, point) ==
    LET i == CHOOSE i \in 1 .. Len(d.keys) :
                 /\ \A j \in 1 .. Len(d.keys) :
                       DistSq(d.keys[i], point) <= DistSq(d.keys[j], point)
                 /\ \A j \in 1 .. i - 1 :
                       DistSq(d.keys[j], point) > DistSq(d.keys[i], point)
    IN  d.keys[i]

\* v * num / den, rounded towards zero
MulDiv(v, num, den) ==
    IF v < 0 THEN -(((-v) * num) \div den) ELSE (v * num) \div den

\* steer: the sample itself if within step_size of nearest, else the point
\* step_size from nearest in the direction of the sample
Steer(nearest, sampled, step) ==
    LET dx == sampled[1] - nearest[1]
        dy == sampled[2] - nearest[2]
        dist == SqrtBisect(dx * dx + dy * dy, 0, Abs(dx) + Abs(dy))
    IN  IF dx * dx + dy * dy <= step * step
        THEN sampled
        ELSE <<nearest[1] + MulDiv(dx, step, dist), nearest[2] + MulDiv(dy, step, dist)>>

\* is_collision_free: within the map bounds and on a cell of value 0
IsCollisionFree(m, sh, point) ==
    IF \/ point[1] < 0 \/ point[1] >= sh[1] * Scale
       \/ point[2] < 0 \/ point[2] >= sh[2] * Scale
    THEN FALSE
    ELSE m[<<point[1] \div Scale, point[2] \div Scale>>] = 0

\* the goal test of plan: ||new_point - goal|| < step_size
GoalTest(point, gl, step) == DistSq(point, gl) < step * step

RECURSIVE WalkUp(_, _, _, _)
\* the loop of _reconstruct_path; fuel bounds the walk by the number of nodes:
\* a walk that outlives it is on a cycle of parent links and never ends
WalkUp(d, end_point, path, fuel) ==
    IF ~(HasKey(d, end_point) /\ d.parent[end_point] # None) THEN List(Reverse(path))
    ELSE IF fuel = 0 THEN None
    ELSE WalkUp(d, d.parent[end_point].node,
                Append(path, d.parent[end_point].node), fuel - 1)

\* _reconstruct_path terminates from end_point
WalkEnds(d, end_point) == WalkUp(d, end_point, <<end_point>>, Len(d.keys)) # None

ReconstructPath(d, end_point) == WalkUp(d, end_point, <<end_point>>, Len(d.keys))

\* find_path: record start and goal, seed the tree, enter plan
RRTFindPath ==
    /\ rrt_pc = "call"
    /\ tree' = DictSet(EmptyDict, rrt_start, None)
    /\ rrt_pc' = "plan"
    /\ UNCHANGED <<rrt_map, rrt_shape, step_size, max_iter, rrt_start, rrt_goal,
                   rrt_iter, goal_hit, rrt_result>>

\* one iteration of the loop of plan, with the path reconstruction it may end in
RRTPlanIteration ==
    /\ rrt_pc = "plan"
    /\ rrt_iter < max_iter
    /\ \E sampled \in SamplePoints(rrt_shape, rrt_goal) :
         LET nearest == NearestNeighbor(tree, sampled)
             new_point == Steer(nearest, sampled, step_size)
             grown == DictSet(tree, new_point, Node(nearest))
         IN  /\ rrt_iter' = rrt_iter + 1
             /\ IF IsCollisionFree(rrt_map, rrt_shape, new_point)
                THEN /\ tree' = grown
                     /\ IF GoalTest(new_point, rrt_goal, step_size)
                        THEN /\ goal_hit' = TRUE
                             /\ IF WalkEnds(grown, new_point)
                                THEN /\ rrt_result' = ReconstructPath(grown, new_point)
                                     /\ rrt_pc' = "done"
                                ELSE /\ rrt_pc' = "hung"
                                     /\ UNCHANGED rrt_result
                        ELSE UNCHANGED <<goal_hit, rrt_result, rrt_pc>>
                ELSE UNCHANGED <<tree, goal_hit, rrt_result, rrt_pc>>
    /\ UNCHANGED <<rrt_map, rrt_shape, step_size, max_iter, rrt_start, rrt_goal>>

\* the loop of plan is exhausted: return None
RRTPlanExhausted ==
    /\ rrt_pc = "plan"
    /\ rrt_iter >= max_iter
    /\ rrt_result' = None
    /\ rrt_pc' = "done"
    /\ UNCHANGED <<rrt_map, rrt_shape, step_size, max_iter, rrt_start, rrt_goal,
                   tree, rrt_iter, goal_hit>>

StepSizes == {Scale \div 2, Scale}

\* the state at a call of RRT.find_path
InitRRTCall ==
    /\ rrt_shape \in Shapes(RRTRows, RRTCols)
    /\ rrt_map \in [Cells(rrt_shape) -> 0 .. 1]
    /\ step_size \in StepSizes
    /\ max_iter \in 1 .. MaxIter
    /\ rrt_start \in {CellPoint(c) : c \in Cells(rrt_shape)}
    /\ rrt_goal \in {CellPoint(c) : c \in Cells(rrt_shape)}
    /\ tree = EmptyDict
    /\ rrt_iter = 0
    /\ goal_hit = FALSE
    /\ rrt_result = None
    /\ rrt_pc = "call"

\* no RRT call in progress
RRTIdle ==
    /\ rrt_shape = <<1, 1>>
    /\ rrt_map = [n \in Cells(<<1, 1>>) |-> 0]
    /\ step_size = Scale
    /\ max_iter = 1
    /\ rrt_start = <<0, 0>>
    /\ rrt_goal = <<0, 0>>
    /\ tree = EmptyDict
    /\ rrt_iter = 0
    /\ goal_hit = FALSE
    /\ rrt_result = None
    /\ rrt_pc = "idle"

\* ------------------------------------------------------------------ PathPlannerWrapper

VARIABLES
    w_arg,      \* the planner_type argument of the constructor call, a string
    w_grid,     \* the grid argument of the constructor call: [shape, cells]
    wrapper,    \* the PathPlannerWrapper object, None while there is none
    w_raised,   \* the exception the last operation raised, "" if none
    w_result,   \* the value the last find_segment_path returned
    w_calls,    \* find_segment_path calls made
    w_pc        \* "new" | "constructed" | "failed"

wrapVars == <<w_arg, w_grid, wrapper, w_raised, w_result, w_calls, w_pc>>

\* a string is the sequence of its characters
UpperCase == <<"A", "B", "C", "D", "E", "F", "G", "H", "I", "J", "K", "L", "M",
               "N", "O", "P", "Q", "R", "S", "T", "U", "V", "W", "X", "Y", "Z">>
LowerCase == <<"a", "b", "c", "d", "e", "f", "g", "h", "i", "j", "k", "l", "m",
               "n", "o", "p", "q", "r", "s", "t", "u", "v", "w", "x", "y", "z">>

LowerChar(c) ==
    IF \E i \in 1 .. Len(UpperCase) : UpperCase[i] = c
    THEN LowerCase[CHOOSE i \in 1 .. Len(UpperCase) : UpperCase[i] = c]
    ELSE c

\* str.lower()
LowerMutIdentity(str) == str
Lower(str) == [i \in 1 .. Len(str) |-> LowerChar(str[i])]

\* PLANNER_MAP: planner name -> planner class
PLANNER_MAP ==
    { <<<<"a", "s", "t", "a", "r">>, "AStarPlanner">>,
      <<<<"r", "r", "t">>, "RRT">>,
      <<<<"r", "r", "t", "*">>, "RRTStar">>,
      <<<<"g", "e", "o", "_", "r", "r", "t">>, "GeoAwareRRT">>,
      <<<<"g", "e", "o", "_", "r", "r", "t", "*">>, "GeoAwareRRTStar">> }

InPlannerMap(name) == \E e \in PLANNER_MAP : e[1] = name
PlannerClass(name) == (CHOOSE e \in PLANNER_MAP : e[1] = name)[2]

\* the AStarPlanner instance the constructor builds
AStarPlanner(g, elev, pen) ==
    [kind |-> "instance", class |-> "AStarPlanner",
     grid |-> g.cells, shape |-> g.shape, elevation |-> elev,
     elevation_penalty |-> pen]

\* PathPlannerWrapper.__init__: the object built, or the exception raised;
\* a = [planner_type, grid, elevation, elevation_penalty, step_size, max_iter]
WrapperInitMutDefault(a) ==
    LET planner_type == Lower(a.planner_type)
        fields == [planner_type |-> planner_type, grid |-> a.grid,
                   elevation |-> a.elevation,
                   elevation_penalty |-> a.elevation_penalty,
                   step_size |-> a.step_size, max_iter |-> a.max_iter]
    IN  IF planner_type # <<"a", "s", "t", "a", "r">> /\ InPlannerMap(planner_type)
        THEN [raised |-> "",
              object |-> [fields EXCEPT !.planner_type = planner_type]
                           @@ [planner_core |->
                                 [kind |-> "class", class |-> PlannerClass(planner_type)]]]
        ELSE [raised |-> "",
              object |-> [fields EXCEPT !.planner_type = <<"a", "s", "t", "a", "r">>]
                           @@ [planner_core |->
                                 AStarPlanner(a.grid, a.elevation, a.elevation_penalty)]]
WrapperInit(a) ==
    LET planner_type == Lower(a.planner_type)
        fields == [planner_type |-> planner_type, grid |-> a.grid,
                   elevation |-> a.elevation,
                   elevation_penalty |-> a.elevation_penalty,
                   step_size |-> a.step_size, max_iter |-> a.max_iter]
    IN  IF planner_type = <<"a", "s", "t", "a", "r">>
        THEN [raised |-> "",
              object |-> fields @@ [planner_core |->
                           AStarPlanner(a.grid, a.elevation, a.elevation_penalty)]]
        ELSE IF InPlannerMap(planner_type)
        THEN [raised |-> "",
              object |-> fields @@ [planner_core |->
                           [kind |-> "class", class |-> PlannerClass(planner_type)]]]
        ELSE [raised |-> "ValueError", object |-> None]

\* the keyword parameters of each planner class's __init__: all it accepts, and
\* those without default
InitParams(class) ==
    CASE class = "AStarPlanner" ->
           [accepts |-> {"grid", "elevation", "elevation_penalty", "debug"},
            requires |-> {"grid"}]
      [] class = "RRT" ->
           [accepts |-> {"occupancy_grid", "step_size", "max_iter", "debug"},
            requires |-> {"occupancy_grid"}]
      [] class = "RRTStar" ->
           [accepts |-> {"start", "goal", "map_path", "occupancy_grid", "target_radius",
                         "delta", "exploration_bias", "max_nodes"},
            requires |-> {"start", "goal"}]
      [] class = "GeoAwareRRT" ->
           [accepts |-> {"grid", "transform", "elevation", "elevation_penalty",
                         "step_size", "max_iter", "debug"},
            requires |-> {"grid", "transform"}]
      [] class = "GeoAwareRRTStar" ->
           [accepts |-> {"occupancy_grid", "transform_func", "dem_func"},
            requires |-> {"occupancy_grid", "transform_func"}]

\* a call class(**kwargs) binds its arguments
CallBinds(class, kwargs) ==
    /\ kwargs \subseteq InitParams(class).accepts
    /\ InitParams(class).requires \subseteq kwargs

\* the keywords find_segment_path passes to the planner class
SegmentKwargs == {"start", "goal", "occupancy_grid", "step_size", "max_iter"}

SamplingNames == {<<"r", "r", "t">>, <<"r", "r", "t", "*">>, <<"g", "e", "o", "_", "r", "r", "t">>, <<"g", "e", "o", "_", "r", "r", "t", "*">>}

\* the planner classes that define plan()
HasPlan(class) == class = "RRT"

\* PathPlannerWrapper.find_segment_path: the value returned, or the exception
\* raised. No planner class binds SegmentKwargs, so the value of planner.plan()
\* is never produced
FindSegmentPath(self, st, gl) ==
    IF self.planner_type = <<"a", "s", "t", "a", "r">>
    THEN [raised |-> "", value |-> AStarFindPath(self.planner_core, st, gl)]
    ELSE IF self.planner_type \in SamplingNames
    THEN IF ~CallBinds(self.planner_core.class, SegmentKwargs)
         THEN [raised |-> "TypeError", value |-> None]
         ELSE IF ~HasPlan(self.planner_core.class)
         THEN [raised |-> "AttributeError", value |-> None]
         ELSE [raised |-> "", value |-> None]
    ELSE [raised |-> "ValueError", value |-> None]

\* the planner_type arguments tried
PlannerTypeArgs ==
    {<<"a", "s", "t", "a", "r">>,
     <<"A", "S", "T", "A", "R">>,
     <<"A", "S", "t", "a", "r">>,
     <<"r", "r", "t">>,
     <<"R", "r", "t">>,
     <<"r", "r", "t", "*">>,
     <<"R", "R", "T", "*">>,
     <<"g", "e", "o", "_", "r", "r", "t">>,
     <<"G", "E", "O", "_", "R", "R", "T">>,
     <<"g", "e", "o", "_", "r", "r", "t", "*">>,
     <<"G", "e", "o", "_", "R", "r", "t", "*">>,
     <<>>,
     <<"a", "*">>,
     <<"r", "r", "t", "_", "s", "t", "a", "r">>,
     <<"d", "i", "j", "k", "s", "t", "r", "a">>,
     <<"A", "S", "T", "A", "R", "*">>,
     <<"g", "e", "o", "r", "r", "t">>}

Grids(r, c) ==
    UNION {{[shape |-> sh, cells |-> g] : g \in [Cells(sh) -> 0 .. 1]} : sh \in Shapes(r, c)}

\* PathPlannerWrapper(planner_type, grid=...) is evaluated
WrapperConstruct ==
    /\ w_pc = "new"
    /\ LET r == WrapperInit([planner_type |-> w_arg, grid |-> w_grid,
                             elevation |-> None, elevation_penalty |-> Scale,
                             step_size |-> Scale, max_iter |-> MaxIter])
       IN  /\ wrapper' = r.object
           /\ w_raised' = r.raised
           /\ w_pc' = IF r.raised = "" THEN "constructed" ELSE "failed"
    /\ UNCHANGED <<w_arg, w_grid, w_result, w_calls>>

\* wrapper.find_segment_path(start, goal) is evaluated on the object built
WrapperFindSegmentPath ==
    /\ w_pc = "constructed"
    /\ w_calls < MaxCalls
    /\ \E st \in Cells(w_grid.shape), gl \in Cells(w_grid.shape) :
         LET r == FindSegmentPath(wrapper, st, gl)
         IN  /\ w_raised' = r.raised
             /\ w_result' = r.value
    /\ w_calls' = w_calls + 1
    /\ UNCHANGED <<w_arg, w_grid, wrapper, w_pc>>

InitWrapperCall ==
    /\ w_arg \in PlannerTypeArgs
    /\ w_grid \in Grids(WRows, WCols)
    /\ wrapper = None
    /\ w_raised = ""
    /\ w_result = None
    /\ w_calls = 0
    /\ w_pc = "new"

\* no wrapper in use
WrapperIdle ==
    /\ w_arg = <<"a", "s", "t", "a", "r">>
    /\ w_grid = [shape |-> <<1, 1>>, cells |-> [n \in Cells(<<1, 1>>) |-> 0]]
    /\ wrapper = None
    /\ w_raised = ""
    /\ w_result = None
    /\ w_calls = 0
    /\ w_pc = "idle"

\* ------------------------------------------------------------------ RRT*

VARIABLES
    rs_map,      \* RRTStar.map: the occupancy grid handed to the constructor
    rs_shape,    \* RRTStar.map.shape = <<height, width>>
    rs_start,    \* RRTStar.start, world coordinates in units of 1/Scale
    rs_goal,     \* RRTStar.goal
    max_nodes,   \* RRTStar.max_nodes
    nodes,       \* RRTStar.nodes, world coordinates
    edges,       \* RRTStar.edges
    rs_path,     \* RRTStar.path
    rs_added,    \* the last step that appended a node: [parent, node]
    rs_checks,   \* the is_valid_point calls of the last step: {[cell, answer]}
    rs_pc        \* "new" | "run" | "stopped"

rsVars == <<rs_map, rs_shape, rs_start, rs_goal, max_nodes, nodes, edges,
            rs_path, rs_added, rs_checks, rs_pc>>

\* the world bounds, target_radius and delta of RRTStar.__init__
WorldXMin == -((216 * Scale) \div 100)
WorldXMax == (242 * Scale) \div 100
WorldYMin == -((407 * Scale) \div 100)
WorldYMax == (178 * Scale) \div 100
TargetRadius == Scale
Delta == 3 * Scale

\* int(): truncation towards zero
TruncDiv(a, b) == IF a < 0 THEN -((-a) \div b) ELSE a \div b

Min2(a, b) == IF a <= b THEN a ELSE b
Max2(a, b) == IF a >= b THEN a ELSE b

\* world2map: world coordinates to the map pixel (px, py), clamped to the map
World2Map(sh, xw, yw) ==
    LET px == TruncDiv((xw - WorldXMin) * (sh[2] - 1), WorldXMax - WorldXMin)
        py == TruncDiv((WorldYMax - yw) * (sh[1] - 1), WorldYMax - WorldYMin)
    IN  <<Min2(Max2(px, 0), sh[2] - 1), Min2(Max2(py, 0), sh[1] - 1)>>

\* RRTStar.distance, in units of 1/Scale
Distance(p1, p2) ==
    SqrtBisect(DistSq(p1, p2), 0, Abs(p1[1] - p2[1]) + Abs(p1[2] - p2[2]))

\* is_valid_point up to its first return: the pixel of the point, the bounds
\* test and the occupancy test; the statements after `return True` never run,
\* so the parent argument has no effect
IsValidPoint(m, sh, point, parent) ==
    LET pix == World2Map(sh, point[1], point[2])
        px == pix[1]
        py == pix[2]
    IN  IF ~(0 <= px /\ px < sh[2] /\ 0 <= py /\ py < sh[1]) THEN FALSE
        ELSE IF m[<<py, px>>] = 0 THEN FALSE
        ELSE TRUE

\* the record of one is_valid_point call: the map cell (row, col) looked up and
\* the answer
CheckOf(m, sh, point, parent) ==
    LET pix == World2Map(sh, point[1], point[2])
    IN  [cell |-> <<pix[2], pix[1]>>, answer |-> IsValidPoint(m, sh, point, parent)]

\* the values np.random.uniform(lo, hi) is drawn from
UniformIn(lo, hi, res) == {lo + (k * (hi - lo)) \div res : k \in 0 .. res}

WorldPoints ==
    UniformIn(WorldXMin, WorldXMax, WorldResX) \X UniformIn(WorldYMin, WorldYMax, WorldResY)

\* sample_point: the goal, a valid uniform sample, or the start when ten
\* samples in a row are invalid
SampleOutcomes(m, sh, st, gl) ==
    {gl}
    \cup {p \in WorldPoints : IsValidPoint(m, sh, p, None)}
    \cup (IF \E p \in WorldPoints : ~IsValidPoint(m, sh, p, None) THEN {st} ELSE {})

\* find_nearest: min over the node list, the first minimum wins
FindNearest(ns, point) ==
    LET i == CHOOSE i \in 1 .. Len(ns) :
                 /\ \A j \in 1 .. Len(ns) : DistSq(ns[i], point) <= DistSq(ns[j], point)
                 /\ \A j \in 1 .. i - 1 : DistSq(ns[j], point) > DistSq(ns[i], point)
    IN  ns[i]

\* the point generate_new_point steps to: min(delta, 0.7 * length) from nearest
\* towards random_point
NewPointWorld(nearest, random_point) ==
    LET dx == random_point[1] - nearest[1]
        dy == random_point[2] - nearest[2]
        length == Distance(nearest, random_point)
        step == Min2(Delta, (length * 7) \div 10)
    IN  <<nearest[1] + MulDiv(dx, step, length), nearest[2] + MulDiv(dy, step, length)>>

\* the argument generate_new_point hands to is_valid_point: the map pixel of
\* the new point, which is_valid_point reads as world coordinates
NewPointMap(sh, nearest, random_point) ==
    LET w == NewPointWorld(nearest, random_point)
        pix == World2Map(sh, w[1], w[2])
    IN  <<pix[1] * Scale, pix[2] * Scale>>

\* generate_new_point
GenerateNewPoint(m, sh, nearest, random_point) ==
    IF Distance(nearest, random_point) = 0 THEN nearest
    ELSE IF IsValidPoint(m, sh, NewPointMap(sh, nearest, random_point), nearest)
    THEN NewPointWorld(nearest, random_point)
    ELSE nearest

RECURSIVE TraceBack(_, _, _, _, _)
\* the while loop of get_final_path: None when a node has no parent edge
TraceBack(es, st, node, path, fuel) ==
    IF node = st THEN List(path)
    ELSE IF ~(\E e \in 1 .. Len(es) : es[e][2] = node) \/ fuel = 0 THEN None
    ELSE TraceBack(es, st,
                   es[CHOOSE e \in 1 .. Len(es) :
                        es[e][2] = node /\ \A f \in 1 .. e - 1 : es[f][2] # node][1],
                   Append(path, node), fuel - 1)

\* get_final_path
GetFinalPath(ns, es, st, gl) ==
    LET walked == TraceBack(es, st, ns[Len(ns)], <<>>, Len(es) + 1)
    IN  IF walked = None THEN None
        ELSE LET p1 == Reverse(Append(walked.items, st))
                 p2 == IF p1[1] = gl THEN Append(Tail(p1), gl) ELSE p1
                 p3 == IF p2[Len(p2)] # gl THEN Append(p2, gl) ELSE p2
             IN  List(p3)

\* RRTStar(start, goal, occupancy_grid=...) is evaluated
RRTStarInit ==
    /\ rs_pc = "new"
    /\ nodes' = <<rs_start>>
    /\ edges' = <<>>
    /\ rs_path' = None
    /\ rs_pc' = "run"
    /\ UNCHANGED <<rs_map, rs_shape, rs_start, rs_goal, max_nodes, rs_added, rs_checks>>

\* step() is called and finds the node budget used up
RRTStarStepFull ==
    /\ rs_pc = "run"
    /\ Len(nodes) >= max_nodes
    /\ rs_pc' = "stopped"
    /\ UNCHANGED <<rs_map, rs_shape, rs_start, rs_goal, max_nodes, nodes, edges,
                   rs_path, rs_added, rs_checks>>

\* step() is called with room for a node: sample, nearest, new point, validity
\* test, append, goal test
RRTStarStep ==
    /\ rs_pc = "run"
    /\ Len(nodes) < max_nodes
    /\ \E random_point \in SampleOutcomes(rs_map, rs_shape, rs_start, rs_goal) :
         LET nearest == FindNearest(nodes, random_point)
             new_point == GenerateNewPoint(rs_map, rs_shape, nearest, random_point)
             grown == Append(nodes, new_point)
         IN  /\ rs_checks' =
                    {CheckOf(rs_map, rs_shape, new_point, nearest)}
                    \cup (IF Distance(nearest, random_point) = 0 THEN {}
                          ELSE {CheckOf(rs_map, rs_shape,
                                        NewPointMap(rs_shape, nearest, random_point),
                                        nearest)})
             /\ IF ~IsValidPoint(rs_map, rs_shape, new_point, nearest)
                THEN UNCHANGED <<nodes, rs_path, rs_added, rs_pc>>
                ELSE /\ nodes' = grown
                     /\ rs_added' = [parent |-> nearest, node |-> new_point]
                     /\ IF Distance(new_point, rs_goal) <= TargetRadius
                        THEN /\ rs_path' = GetFinalPath(grown, edges, rs_start, rs_goal)
                             /\ rs_pc' = "stopped"
                        ELSE UNCHANGED <<rs_path, rs_pc>>
    /\ UNCHANGED <<rs_map, rs_shape, rs_start, rs_goal, max_nodes, edges>>

\* the state at a call of the RRTStar constructor
InitRRTStarCall ==
    /\ rs_shape \in Shapes(RSRows, RSCols)
    /\ rs_map \in [Cells(rs_shape) -> 0 .. 1]
    /\ rs_start \in WorldPoints
    /\ rs_goal \in WorldPoints
    /\ max_nodes \in 2 .. RSMaxNodes
    /\ nodes = <<>>
    /\ edges = <<>>
    /\ rs_path = None
    /\ rs_added = None
    /\ rs_checks = {}
    /\ rs_pc = "new"

\* no RRTStar object in use
RRTStarIdle ==
    /\ rs_shape = <<1, 1>>
    /\ rs_map = [n \in Cells(<<1, 1>>) |-> 0]
    /\ rs_start = <<0, 0>>
    /\ rs_goal = <<0, 0>>
    /\ max_nodes = 2
    /\ nodes = <<>>
    /\ edges = <<>>
    /\ rs_path = None
    /\ rs_added = None
    /\ rs_checks = {}
    /\ rs_pc = "idle"

\* ------------------------------------------------------------------ tour solver

VARIABLES
    waypoints,          \* the waypoint list: a sequence of <<lat, lon>> (or <<x, y>>)
    metric,             \* the metric argument, a string
    cost_matrix,        \* the value of compute_cost_matrix, None before the call
    tsp_tour,           \* tsp_tour of solve_tsp_christofides, None before the call
    tour_cost,          \* tour_cost of solve_tsp_christofides
    ordered_waypoints,  \* ordered_waypoints of generate_ordered_waypoints
    tsp_raised,         \* the exception raised, "" if none
    tsp_pc              \* "call" | "matrix" | "tour" | "done" | "failed"

tspVars == <<waypoints, metric, cost_matrix, tsp_tour, tour_cost,
             ordered_waypoints, tsp_raised, tsp_pc>>

\* metres per degree of arc on the mean sphere
MetersPerDegree == 111195

\* scipy's euclidean(u, v), in units of 1/Scale
Euclidean(u, v) == Norm(u[1] - v[1], u[2] - v[2])

\* geopy's geodesic(u, v).meters for points within a few degrees of the
\* equator, where a degree of latitude and a degree of longitude have the same
\* length; in metres
Geodesic(u, v) == (MetersPerDegree * Norm(u[1] - v[1], u[2] - v[2])) \div Scale

\* the if / elif / else of the inner loop body: the distance, or the exception
DistOf(m, u, v) ==
    IF m = "euclidean" THEN [raised |-> "", dist |-> Euclidean(u, v)]
    ELSE IF m = "geodesic" THEN [raised |-> "", dist |-> Geodesic(u, v)]
    ELSE [raised |-> "ValueError", dist |-> 0]

\* the index pairs the two loops visit: for i in range(n): for j in range(i)
LoopPairs(n) == {p \in (0 .. n - 1) \X (0 .. n - 1) : p[2] < p[1]}

\* compute_cost_matrix: the matrix (indices from 0), or the exception raised by
\* the first loop iteration
ComputeCostMatrixMutLowerOnly(wps, m) ==
    LET n == Len(wps)
    IN  IF \E p \in LoopPairs(n) : DistOf(m, wps[p[1] + 1], wps[p[2] + 1]).raised # ""
        THEN [raised |-> "ValueError", value |-> None]
        ELSE [raised |-> "",
              value |-> Array([i \in 0 .. n - 1 |-> [j \in 0 .. n - 1 |->
                          IF <<i, j>> \in LoopPairs(n)
                          THEN DistOf(m, wps[i + 1], wps[j + 1]).dist
                          ELSE 0]])]
ComputeCostMatrix(wps, m) ==
    LET n == Len(wps)
    IN  IF \E p \in LoopPairs(n) : DistOf(m, wps[p[1] + 1], wps[p[2] + 1]).raised # ""
        THEN [raised |-> "ValueError", value |-> None]
        ELSE [raised |-> "",
              value |-> Array([i \in 0 .. n - 1 |-> [j \in 0 .. n - 1 |->
                          IF <<i, j>> \in LoopPairs(n)
                          THEN DistOf(m, wps[i + 1], wps[j + 1]).dist
                          ELSE IF <<j, i>> \in LoopPairs(n)
                          THEN DistOf(m, wps[j + 1], wps[i + 1]).dist
                          ELSE 0]])]

\* build_graph_from_matrix: the edges <<i, j>>, j < i; the nodes are their ends
GraphEdges(cm) == LoopPairs(Cardinality(DOMAIN cm))
GraphNodes(cm) == UNION {{e[1], e[2]} : e \in GraphEdges(cm)}

RECURSIVE SumWeights(_, _)
SumWeights(cm, es) ==
    IF es = {} THEN 0
    ELSE LET e == CHOOSE x \in es : TRUE
         IN  cm[e[1]][e[2]] + SumWeights(cm, es \ {e})

RECURSIVE ReachFrom(_, _)
\* the nodes joined to the set R by edges of es
ReachFrom(R, es) ==
    LET R2 == R \cup {n \in UNION {{e[1], e[2]} : e \in es} :
                        \E e \in es : {e[1], e[2]} \cap R # {} /\ n \in {e[1], e[2]}}
    IN  IF R2 = R THEN R ELSE ReachFrom(R2, es)

\* the spanning trees of the graph, and those of minimum weight
SpanningTrees(cm) ==
    LET ns == GraphNodes(cm)
    IN  {t \in SUBSET GraphEdges(cm) :
           /\ Cardinality(t) = Cardinality(ns) - 1
           /\ \A r \in ns : ReachFrom({r}, t) = ns}
MinimumSpanningTrees(cm) ==
    {t \in SpanningTrees(cm) :
       \A o \in SpanningTrees(cm) : SumWeights(cm, t) <= SumWeights(cm, o)}

Degree(es, n) == Cardinality({e \in es : n \in {e[1], e[2]}})

\* the nodes of odd degree in the tree, and the perfect matchings of minimum
\* weight among them
OddNodes(cm, t) == {n \in GraphNodes(cm) : Degree(t, n) % 2 = 1}
PerfectMatchings(cm, O) ==
    {mt \in SUBSET {e \in GraphEdges(cm) : e[1] \in O /\ e[2] \in O} :
       \A n \in O : Degree(mt, n) = 1}
MinWeightMatchings(cm, O) ==
    {mt \in PerfectMatchings(cm, O) :
       \A o \in PerfectMatchings(cm, O) : SumWeights(cm, mt) <= SumWeights(cm, o)}

SetToSeq(S) == CHOOSE q \in [1 .. Cardinality(S) -> S] : \A x \in S : \E i \in DOMAIN q : q[i] = x

\* the multigraph of the tree edges and the matching edges, as an edge list
MultiGraph(t, mt) == SetToSeq(t) \o SetToSeq(mt)

RECURSIVE EulerWalks(_, _, _)
\* the walks from cur that use every edge of mg listed in unused exactly once,
\* as sequences of <<u, v>>
EulerWalks(mg, cur, unused) ==
    IF unused = {} THEN {<<>>}
    ELSE UNION {
           LET nxt == IF mg[e][1] = cur THEN mg[e][2] ELSE mg[e][1]
           IN  {<< <<cur, nxt>> >> \o w : w \in EulerWalks(mg, nxt, unused \ {e})} :
           e \in {x \in unused : cur \in {mg[x][1], mg[x][2]}}}

\* eulerian_circuit(MG): a circuit from one of the nodes
EulerianCircuits(mg) ==
    UNION {EulerWalks(mg, src, 1 .. Len(mg)) :
             src \in UNION {{mg[i][1], mg[i][2]} : i \in 1 .. Len(mg)}}

RECURSIVE ShortcutFrom(_, _, _)
\* the for loop of networkx's _shortcutting
ShortcutFrom(circuit, i, ns) ==
    IF i > Len(circuit) THEN ns
    ELSE LET u == circuit[i][1]
             v == circuit[i][2]
         IN  IF \E k \in 1 .. Len(ns) : ns[k] = v
             THEN ShortcutFrom(circuit, i + 1, ns)
             ELSE ShortcutFrom(circuit, i + 1,
                               Append(IF ns = <<>> THEN <<u>> ELSE ns, v))

\* _shortcutting: the nodes in the order the circuit first reaches them, then
\* the first node again
Shortcutting(circuit) ==
    LET ns == ShortcutFrom(circuit, 1, <<>>)
    IN  Append(ns, ns[1])

\* nx.algorithms.approximation.christofides(G): the tours it can return; none
\* for the graph without nodes, on which networkx raises
Christofides(cm) ==
    IF GraphNodes(cm) = {} THEN {}
    ELSE UNION { UNION { {Shortcutting(c) : c \in EulerianCircuits(MultiGraph(t, mt))} :
                          mt \in MinWeightMatchings(cm, OddNodes(cm, t)) } :
                 t \in MinimumSpanningTrees(cm) }

RECURSIVE TourLegs(_, _, _)
\* sum(cost_matrix[tsp_tour[i]][tsp_tour[i+1]] for i in range(len(tsp_tour) - 1))
TourLegs(cm, tour, i) ==
    IF i >= Len(tour) THEN 0
    ELSE cm[tour[i]][tour[i + 1]] + TourLegs(cm, tour, i + 1)

\* tour_cost of solve_tsp_christofides for the tour christofides returned
TourCost(cm, tour) == TourLegs(cm, tour, 1) + cm[tour[Len(tour)]][tour[1]]

\* compute_cost_matrix(coords_for_tsp, metric=metric) is evaluated
ComputeCostMatrixCall ==
    /\ tsp_pc = "call"
    /\ LET r == ComputeCostMatrix(waypoints, metric)
       IN  /\ cost_matrix' = r.value
           /\ tsp_raised' = r.raised
           /\ tsp_pc' = IF r.raised = "" THEN "matrix" ELSE "failed"
    /\ UNCHANGED <<waypoints, metric, tsp_tour, tour_cost, ordered_waypoints>>

\* solve_tsp_christofides(cost_matrix) is evaluated and returns
SolveTspChristofides ==
    /\ tsp_pc = "matrix"
    /\ \E tour \in Christofides(cost_matrix.array) :
         /\ tsp_tour' = List(tour)
         /\ tour_cost' = TourCost(cost_matrix.array, tour)
    /\ tsp_pc' = "tour"
    /\ UNCHANGED <<waypoints, metric, cost_matrix, ordered_waypoints, tsp_raised>>

\* solve_tsp_christofides(cost_matrix) is evaluated and networkx raises
SolveTspChristofidesRaises ==
    /\ tsp_pc = "matrix"
    /\ Christofides(cost_matrix.array) = {}
    /\ tsp_raised' = "NetworkXException"
    /\ tsp_pc' = "failed"
    /\ UNCHANGED <<waypoints, metric, cost_matrix, tsp_tour, tour_cost,
                   ordered_waypoints>>

\* ordered_waypoints = [waypoints[i] for i in tsp_order]
ReorderWaypoints ==
    /\ tsp_pc = "tour"
    /\ ordered_waypoints' =
          List([k \in 1 .. Len(tsp_tour.items) |-> waypoints[tsp_tour.items[k] + 1]])
    /\ tsp_pc' = "done"
    /\ UNCHANGED <<waypoints, metric, cost_matrix, tsp_tour, tour_cost, tsp_raised>>

\* the coordinates waypoints are drawn from
Coords == (0 .. MaxCoord) \X (0 .. MaxCoord)

RECURSIVE SeqsUpTo(_, _)
SeqsUpTo(S, n) ==
    IF n = 0 THEN {<<>>}
    ELSE LET shorter == SeqsUpTo(S, n - 1)
         IN  shorter \cup {Append(q, x) : q \in {y \in shorter : Len(y) = n - 1}, x \in S}

\* the metric arguments tried
MetricArgs == {"euclidean", "geodesic", "manhattan", "Euclidean", ""}

\* the state at a call of generate_ordered_waypoints, the waypoints generated
InitTspCall ==
    /\ waypoints \in SeqsUpTo(Coords, MaxWaypoints)
    /\ metric \in MetricArgs
    /\ cost_matrix = None
    /\ tsp_tour = None
    /\ tour_cost = 0
    /\ ordered_waypoints = None
    /\ tsp_raised = ""
    /\ tsp_pc = "call"

\* no tour being computed
TspIdle ==
    /\ waypoints = <<>>
    /\ metric = "euclidean"
    /\ cost_matrix = None
    /\ tsp_tour = None
    /\ tour_cost = 0
    /\ ordered_waypoints = None
    /\ tsp_raised = ""
    /\ tsp_pc = "idle"

\* ------------------------------------------------------------------ trajectory synthesis

VARIABLES
    sim_grid,        \* SimulationController.grid: [shape, cells]
    waypoints_rc,    \* waypoints_rc of run_simulation: the waypoint cells
    speed_mps,       \* SimulationController.speed_mps, metres per second
    interval_ms,     \* SimulationController.interval_ms, milliseconds
    sim_state,       \* state of run_simulation: the agent's position <<lat, lon>>
    all_points,      \* all_points of run_simulation: [ts, lat, lon, heading, segment]
    seg_i,           \* i of the loop over waypoint pairs
    segment_latlon,  \* segment_latlon of the segment being walked
    target_j,        \* j of the loop over segment_latlon, from 1
    seen,            \* positions the walk towards the current target started a step from
    planned,         \* the pairs i for which the planner returned a path
    skipped,         \* the pairs i that were skipped
    clock,           \* the system clock in milliseconds, as utcnow reads it
    sim_raised,      \* the exception raised, "" if none
    sim_pc           \* "call" | "plan" | "walk" | "done" | "failed" | "hung"

simVars == <<sim_grid, waypoints_rc, speed_mps, interval_ms, sim_state, all_points,
             seg_i, segment_latlon, target_j, seen, planned, skipped, clock,
             sim_raised, sim_pc>>

\* the side of a grid cell and the arrival threshold of has_arrived, in metres
CellSizeM == 5
ThresholdM == 2

\* grid_to_latlon on a local plane: positions are <<lat, lon>> in units of
\* 1/Scale metre, cell (row, col) lying at (row, col) * cell size
GridToLatLon(rc) == <<rc[1] * CellSizeM * Scale, rc[2] * CellSizeM * Scale>>

\* has_arrived: the distance to the target is at most threshold_m
HasArrived(state, target) ==
    DistSq(state, target) <= (ThresholdM * Scale) * (ThresholdM * Scale)

\* distance_to_move of step_towards: speed_mps * (interval_ms / 1000) metres
DistanceToMove(speed, interval) == (speed * interval * Scale) \div 1000

\* step_towards: the point distance_to_move from the state on the line to the
\* target, however near the target is
StepTowards(state, target, speed, interval) ==
    LET dx == target[1] - state[1]
        dy == target[2] - state[2]
        dist == Distance(state, target)
        move == DistanceToMove(speed, interval)
    IN  <<state[1] + MulDiv(dx, move, dist), state[2] + MulDiv(dy, move, dist)>>

\* the arctangent of num / den for 0 <= num <= den, in units of 1/Scale degree:
\* exact at 0 and 1, linear in between (within 4.1 degrees of the arctangent)
AtanDeg(num, den) == (45 * Scale * num) \div den

\* the forward azimuth of geod.inv for a displacement of north, east: the angle
\* clockwise from north, in (-180, 180] degrees, in units of 1/Scale degree;
\* negative for every displacement with a westward component
Azimuth(north, east) ==
    LET a == Abs(east)
        b == Abs(north)
        theta == IF a = 0 /\ b = 0 THEN 0
                 ELSE IF a <= b THEN AtanDeg(a, b)
                 ELSE 90 * Scale - AtanDeg(b, a)
        fromNorth == IF north >= 0 THEN theta ELSE 180 * Scale - theta
    IN  IF east >= 0 THEN fromNorth ELSE -fromNorth

\* compute_heading: the azimuth brought into [0, 360)
ComputeHeading(north, east) == (Azimuth(north, east) + 360 * Scale) % (360 * Scale)

\* "heading" of the state step_towards returns: the azimuth of geod.inv from the
\* state to the target, as it is
StepHeading(state, target) == Azimuth(target[1] - state[1], target[2] - state[2])

\* the planner built by SimulationController.__init__: A* over the grid with
\* the elevation field (flat here)
SimPlanner(g) ==
    WrapperInit([planner_type |-> <<"a", "s", "t", "a", "r">>, grid |-> g,
                 elevation |-> Array([c \in Cells(g.shape) |-> 0]),
                 elevation_penalty |-> Scale \div 1000,
                 step_size |-> (3 * Scale) \div 2, max_iter |-> 1500]).object

\* datetime.utcnow(): the system clock after the time the computation took since
\* the last reading, or less than the last reading when the clock was set back
\* in between
UtcNow(now) == {now + e : e \in 0 .. MaxElapsedMs} \cup {now - 1}

\* the speeds (m/s) and sample intervals (ms) tried
SpeedSet == {3, 5}
IntervalSet == {500, 1000}

\* `not segment_rc`
IsFalsy(v) == v = None \/ v.items = <<>>

\* the value of i after a skipped pair: `continue`
AfterSkip(i, n) == i + 1

\* run_simulation up to its loop: the waypoint cells, the guard on their number,
\* the start state
SimStart ==
    /\ sim_pc = "call"
    /\ IF Len(waypoints_rc) < 2
       THEN /\ sim_raised' = "ValueError"
            /\ sim_pc' = "failed"
       ELSE /\ sim_pc' = "plan"
            /\ UNCHANGED sim_raised
    /\ all_points' = <<>>
    /\ seg_i' = 0
    /\ UNCHANGED <<sim_grid, waypoints_rc, speed_mps, interval_ms, sim_state,
                   segment_latlon, target_j, seen, planned, skipped, clock>>

\* one pass of the loop over waypoint pairs up to the walk: plan the pair, skip
\* it when the planner returns nothing
SimPlanSegment ==
    /\ sim_pc = "plan"
    /\ seg_i < Len(waypoints_rc) - 1
    /\ LET r == FindSegmentPath(SimPlanner(sim_grid),
                                waypoints_rc[seg_i + 1], waypoints_rc[seg_i + 2])
       IN  IF r.raised # ""
           THEN /\ sim_raised' = r.raised
                /\ sim_pc' = "failed"
                /\ UNCHANGED <<seg_i, segment_latlon, target_j, seen, planned, skipped>>
           ELSE IF IsFalsy(r.value)
           THEN /\ seg_i' = AfterSkip(seg_i, Len(waypoints_rc))
                /\ skipped' = skipped \cup {seg_i}
                /\ UNCHANGED <<segment_latlon, target_j, seen, planned, sim_raised, sim_pc>>
           ELSE /\ segment_latlon' =
                      [k \in 1 .. Len(r.value.items) |-> GridToLatLon(r.value.items[k])]
                /\ target_j' = 1
                /\ seen' = {}
                /\ planned' = planned \cup {seg_i}
                /\ sim_pc' = "walk"
                /\ UNCHANGED <<seg_i, skipped, sim_raised>>
    /\ UNCHANGED <<sim_grid, waypoints_rc, speed_mps, interval_ms, sim_state,
                   all_points, clock>>

\* one iteration of `while not self.has_arrived(state, target)`: step, read the
\* clock, append the point. A step from a position the walk towards this target
\* already stepped from repeats what followed: the loop never ends
SimWalkStep ==
    /\ sim_pc = "walk"
    /\ target_j <= Len(segment_latlon)
    /\ ~HasArrived(sim_state, segment_latlon[target_j])
    /\ IF sim_state \in seen
       THEN /\ sim_pc' = "hung"
            /\ UNCHANGED <<sim_state, all_points, seen, clock>>
       ELSE /\ \E ts \in UtcNow(clock) :
                 /\ clock' = ts
                 /\ sim_state' = StepTowards(sim_state, segment_latlon[target_j],
                                             speed_mps, interval_ms)
                 /\ all_points' = Append(all_points,
                                         [ts |-> ts, lat |-> sim_state'[1],
                                          lon |-> sim_state'[2],
                                          heading |-> StepHeading(sim_state,
                                                        segment_latlon[target_j]),
                                          segment |-> seg_i])
            /\ seen' = seen \cup {sim_state}
            /\ UNCHANGED sim_pc
    /\ UNCHANGED <<sim_grid, waypoints_rc, speed_mps, interval_ms, seg_i,
                   segment_latlon, target_j, planned, skipped, sim_raised>>

\* the while loop ends: the agent has arrived at the target; next target, or
\* next waypoint pair after the last target
SimArrive ==
    /\ sim_pc = "walk"
    /\ target_j <= Len(segment_latlon)
    /\ HasArrived(sim_state, segment_latlon[target_j])
    /\ seen' = {}
    /\ IF target_j < Len(segment_latlon)
       THEN /\ target_j' = target_j + 1
            /\ UNCHANGED <<seg_i, sim_pc>>
       ELSE /\ target_j' = target_j + 1
            /\ seg_i' = seg_i + 1
            /\ sim_pc' = "plan"
    /\ UNCHANGED <<sim_grid, waypoints_rc, speed_mps, interval_ms, sim_state,
                   all_points, segment_latlon, planned, skipped, clock, sim_raised>>

\* the loop over waypoint pairs is exhausted: generated_trace is set and returned
SimFinish ==
    /\ sim_pc = "plan"
    /\ seg_i >= Len(waypoints_rc) - 1
    /\ sim_pc' = "done"
    /\ UNCHANGED <<sim_grid, waypoints_rc, speed_mps, interval_ms, sim_state,
                   all_points, seg_i, segment_latlon, target_j, seen, planned,
                   skipped, clock, sim_raised>>

\* the grids of run_simulation: at most one occupied cell
SimGrids ==
    {g \in Grids(SimRows, SimCols) :
       Cardinality({c \in Cells(g.shape) : g.cells[c] # 0}) <= 1}

\* the state at a call of run_simulation
InitSimCall ==
    /\ sim_grid \in SimGrids
    /\ waypoints_rc \in SeqsUpTo(Cells(sim_grid.shape), MaxSimWaypoints)
    /\ speed_mps \in SpeedSet
    /\ interval_ms \in IntervalSet
    /\ sim_state \in {GridToLatLon(c) : c \in Cells(sim_grid.shape)}
    /\ all_points = <<>>
    /\ seg_i = 0
    /\ segment_latlon = <<>>
    /\ target_j = 1
    /\ seen = {}
    /\ planned = {}
    /\ skipped = {}
    /\ clock = ClockStart
    /\ sim_raised = ""
    /\ sim_pc = "call"

\* no simulation running
SimIdle ==
    /\ sim_grid = [shape |-> <<1, 1>>, cells |-> [n \in Cells(<<1, 1>>) |-> 0]]
    /\ waypoints_rc = <<>>
    /\ speed_mps = 1
    /\ interval_ms = 1000
    /\ sim_state = <<0, 0>>
    /\ all_points = <<>>
    /\ seg_i = 0
    /\ segment_latlon = <<>>
    /\ target_j = 1
    /\ seen = {}
    /\ planned = {}
    /\ skipped = {}
    /\ clock = 0
    /\ sim_raised = ""
    /\ sim_pc = "idle"

\* ------------------------------------------------------------------ elevation lookup

VARIABLES
    dem_elevation,   \* SimulationController.elevation: [shape, cells]
    dem_lat,         \* lat of the dem_func call, in units of 1/Scale metre
    dem_lon,         \* lon of the dem_func call
    dem_value,       \* the value dem_func returned, None before it returns
    dem_raised,      \* the exception dem_func propagated, "" if none
    dem_pc           \* "call" | "done" | "failed"

demVars == <<dem_elevation, dem_lat, dem_lon, dem_value, dem_raised, dem_pc>>

\* rasterio's rowcol: the inverse of the transform of grid_to_latlon, floored
RowCol(lat, lon) == <<lat \div (CellSizeM * Scale), lon \div (CellSizeM * Scale)>>

\* numpy indexing along an axis of length n: indices -n .. n-1 are accepted, a
\* negative index counting from the end; any other index raises IndexError
IndexAccepted(i, n) == -n <= i /\ i < n
IndexWrapped(i, n) == IF i < 0 THEN i + n ELSE i

\* self.elevation[row, col]
ElevationAt(elev, row, col) ==
    IF IndexAccepted(row, elev.shape[1]) /\ IndexAccepted(col, elev.shape[2])
    THEN [value |-> elev.cells[<<IndexWrapped(row, elev.shape[1]),
                                 IndexWrapped(col, elev.shape[2])>>],
          raised |-> ""]
    ELSE [value |-> None, raised |-> "IndexError"]

\* safe_dem_func: the elevation at the cell of rowcol; 0.0 on IndexError and
\* ValueError
SafeDemFunc(elev, lat, lon) ==
    LET rc == RowCol(lat, lon)
        r == ElevationAt(elev, rc[1], rc[2])
    IN  IF r.raised \in {"IndexError", "ValueError"}
        THEN [value |-> 0, raised |-> ""]
        ELSE r

\* a call of dem_func
DemFuncCall ==
    /\ dem_pc = "call"
    /\ LET r == SafeDemFunc(dem_elevation, dem_lat, dem_lon)
       IN  /\ dem_value' = r.value
           /\ dem_raised' = r.raised
           /\ dem_pc' = IF r.raised = "" THEN "done" ELSE "failed"
    /\ UNCHANGED <<dem_elevation, dem_lat, dem_lon>>

\* the positions looked up: half-cell steps from DemMargin cells before the grid
\* to DemMargin cells after it
DemCoords(n) ==
    {(k * CellSizeM * Scale) \div 2 : k \in -(2 * DemMargin) .. 2 * (n + DemMargin) - 1}

\* the state at a call of dem_func: elevations are positive, so that the
\* fallback is no cell's elevation
InitDemCall ==
    /\ dem_elevation \in
          {[shape |-> <<DemRows, DemCols>>, cells |-> f] :
             f \in [Cells(<<DemRows, DemCols>>) -> 1 .. DemMaxElev]}
    /\ dem_lat \in DemCoords(DemRows)
    /\ dem_lon \in DemCoords(DemCols)
    /\ dem_value = None
    /\ dem_raised = ""
    /\ dem_pc = "call"

\* no lookup running
DemIdle ==
    /\ dem_elevation = [shape |-> <<1, 1>>, cells |-> [n \in Cells(<<1, 1>>) |-> 0]]
    /\ dem_lat = 0
    /\ dem_lon = 0
    /\ dem_value = None
    /\ dem_raised = ""
    /\ dem_pc = "idle"

\* ------------------------------------------------------------------ concurrent sampling

VARIABLES
    rng,          \* the state of the generator of module random, shared by all callers
    conc_goal,    \* the goal of both planning calls
    callers       \* per caller: [pc, seed, x, samples, tree, iter, result]
                  \* pc: "seed" | "bias" | "x" | "y" | "done" | "hung"

concVars == <<rng, conc_goal, callers>>

Callers == 1 .. 2

\* the map, start, step size and iteration limit of both calls
ConcShape == <<ConcRows, ConcCols>>
ConcMap == [c \in Cells(ConcShape) |-> 0]
ConcStart == CellPoint(<<0, 0>>)
ConcStepSize == Scale

\* random.seed(a): the generator state a seed determines
Seeded(a) == a % RngMod

\* one draw: the state after it, and random.random() = state / RngMod in [0, 1)
RngNext(st) == (5 * st + 3) % RngMod

\* `random.random() > 0.9` for the draw that left the generator in state st
AboveBias(st) == 10 * st > 9 * RngMod

\* random.uniform(0, n) for the draw that left the generator in state st
UniformDraw(st, n) == (n * st * Scale) \div RngMod

\* the body of the loop of plan after sample_point, on the caller's own tree
PlanWith(c, sampled) ==
    LET nearest == NearestNeighbor(c.tree, sampled)
        new_point == Steer(nearest, sampled, ConcStepSize)
        grown == DictSet(c.tree, new_point, Node(nearest))
        free == IsCollisionFree(ConcMap, ConcShape, new_point)
        hit == free /\ GoalTest(new_point, conc_goal, ConcStepSize)
        after == [c EXCEPT !.samples = Append(c.samples, sampled),
                           !.iter = c.iter + 1,
                           !.tree = IF free THEN grown ELSE c.tree]
    IN  IF hit
        THEN IF WalkEnds(grown, new_point)
             THEN [after EXCEPT !.result = ReconstructPath(grown, new_point),
                                !.pc = "done"]
             ELSE [after EXCEPT !.pc = "hung"]
        ELSE IF after.iter >= ConcMaxIter
        THEN [after EXCEPT !.result = None, !.pc = "done"]
        ELSE [after EXCEPT !.pc = "bias"]

\* the caller seeds the generator and calls find_path
CallerSeeds(k) ==
    /\ callers[k].pc = "seed"
    /\ rng' = Seeded(callers[k].seed)
    /\ callers' = [callers EXCEPT ![k].pc = "bias",
                                  ![k].tree = DictSet(EmptyDict, ConcStart, None)]
    /\ UNCHANGED conc_goal

\* sample_point, `random.random() > 0.9`: the goal is the sample, or the
\* coordinates are drawn next
DrawBias(k) ==
    /\ callers[k].pc = "bias"
    /\ rng' = RngNext(rng)
    /\ callers' = [callers EXCEPT ![k] =
                       IF AboveBias(rng') THEN PlanWith(@, conc_goal)
                       ELSE [@ EXCEPT !.pc = "x"]]
    /\ UNCHANGED conc_goal

\* sample_point, random.uniform(0, self.map.shape[0])
DrawX(k) ==
    /\ callers[k].pc = "x"
    /\ rng' = RngNext(rng)
    /\ callers' = [callers EXCEPT ![k].x = UniformDraw(rng', ConcShape[1]),
                                  ![k].pc = "y"]
    /\ UNCHANGED conc_goal

\* sample_point, random.uniform(0, self.map.shape[1]), and the rest of the
\* iteration of plan
DrawY(k) ==
    /\ callers[k].pc = "y"
    /\ rng' = RngNext(rng)
    /\ callers' = [callers EXCEPT ![k] =
                       PlanWith(@, <<@.x, UniformDraw(rng', ConcShape[2])>>)]
    /\ UNCHANGED conc_goal

\* two callers about to seed the generator and plan
InitConcCall ==
    /\ rng \in 0 .. RngMod - 1
    /\ conc_goal \in {CellPoint(c) : c \in Cells(ConcShape)}
    /\ callers \in [Callers -> {[pc |-> "seed", seed |-> a, x |-> 0, samples |-> <<>>,
                                  tree |-> EmptyDict, iter |-> 0, result |-> None] :
                                    a \in 0 .. RngMod - 1}]

\* no concurrent calls
ConcIdle ==
    /\ rng = 0
    /\ conc_goal = <<0, 0>>
    /\ callers = [k \in Callers |->
                    [pc |-> "idle", seed |-> 0, x |-> 0, samples |-> <<>>,
                     tree |-> EmptyDict, iter |-> 0, result |-> None]]

\* ------------------------------------------------------------------ A*: one planner, many calls

VARIABLES
    ru_args,        \* the arguments the planner was constructed with:
                    \* [grid, elevation, elevation_penalty]
    planner_core,   \* PathPlannerWrapper.planner_core: the AStarPlanner instance
    calls,          \* per thread, the find_path call it is in or has returned
                    \* from: [start, goal, locals]
    ru_count        \* number of find_path calls begun on the instance

reuseVars == <<ru_args, planner_core, calls, ru_count>>

Threads == 1 .. 2

\* the attributes of the planner after a step of find_path: find_path assigns
\* no attribute of self
PlannerAfterMutMarksVisited(planner, s) ==
    [planner EXCEPT !.grid = [c \in DOMAIN @ |-> IF c \in s.visited THEN 1 ELSE @[c]]]
PlannerAfter(planner, s) == planner

\* the planner and the query as LoopState reads them
QueryOf(planner, st, gl) ==
    [grid |-> planner.grid, shape |-> planner.shape,
     elevation |-> planner.elevation,
     elevation_penalty |-> planner.elevation_penalty,
     start |-> st, goal |-> gl]

\* thread t calls planner_core.find_path(start, goal): the call creates its
\* locals and reaches the while loop, or returns in the trivial case
ReuseFindPathEntry(t) ==
    /\ calls[t].locals.pc \in {"call", "done"}
    /\ ru_count < RuMaxCalls
    /\ \E st \in Cells(planner_core.shape), gl \in Cells(planner_core.shape) :
         LET s == EntryState(FreshLocals, st, gl)
         IN  /\ calls' = [calls EXCEPT ![t] = [start |-> st, goal |-> gl, locals |-> s]]
             /\ planner_core' = PlannerAfter(planner_core, s)
    /\ ru_count' = ru_count + 1
    /\ UNCHANGED ru_args

\* the call of thread t runs one iteration of its while loop, or leaves it
ReuseFindPathLoop(t) ==
    /\ calls[t].locals.pc = "loop"
    /\ LET s == LoopState(calls[t].locals,
                          QueryOf(planner_core, calls[t].start, calls[t].goal))
       IN  /\ calls' = [calls EXCEPT ![t].locals = s]
           /\ planner_core' = PlannerAfter(planner_core, s)
    /\ UNCHANGED <<ru_args, ru_count>>

\* the elevation fields tried: none, and the row index as elevation
RuElevations(sh) == {None, Array([c \in Cells(sh) |-> c[1]])}

\* a planner just constructed, no call made yet
InitReuseCall ==
    /\ ru_args \in UNION {{[grid |-> g, elevation |-> e, elevation_penalty |-> Scale] :
                               e \in RuElevations(g.shape)} : g \in Grids(RuRows, RuCols)}
    /\ planner_core = AStarPlanner(ru_args.grid, ru_args.elevation,
                                   ru_args.elevation_penalty)
    /\ calls = [t \in Threads |-> [start |-> <<0, 0>>, goal |-> <<0, 0>>,
                                   locals |-> FreshLocals]]
    /\ ru_count = 0

\* no planner in use
ReuseIdle ==
    /\ ru_args = None
    /\ planner_core = None
    /\ calls = [t \in Threads |-> [start |-> <<0, 0>>, goal |-> <<0, 0>>,
                                   locals |-> [FreshLocals EXCEPT !.pc = "idle"]]]
    /\ ru_count = 0

\* ------------------------------------------------------------------ playback

VARIABLES
    paused,          \* controller.paused of the PlaybackController of main.py
    playback_state,  \* playback_state of main.py: [trace, index]
    gps_trace,       \* the rows of table gps_trace for the drone, ordered by ts
    response,        \* the response to the last request: [kind, point]
                     \* kind: "none" | "paused" | "done" | "point" | "status" | "error"
    last_request,    \* the last request and the state it found: [name, paused, state]
    delivered        \* the points gps/next returned since the last reset

playVars == <<paused, playback_state, gps_trace, response, last_request, delivered>>

\* the parameters of query.get_all_trace, and the arguments get_next_point
\* passes in its call
GetAllTraceParams == <<"conn", "drone_id">>
GetAllTraceArgs == <<"_psycopg_cur">>

\* the call query.get_all_trace(...) as get_next_point makes it, never awaited:
\* TypeError when the arguments do not bind, else a coroutine object
GetAllTraceCall(args, rows) ==
    IF Len(args) # Len(GetAllTraceParams)
    THEN [raised |-> "TypeError", value |-> None]
    ELSE [raised |-> "", value |-> [coroutine |-> rows]]

\* `not playback_state["trace"]`: the empty list is falsy, a coroutine object is not
TraceIsFalsy(trace) == trace = List(<<>>)

\* the request recorded with the state it found
Request(name) == [name |-> name, paused |-> paused, state |-> playback_state]

\* GET /api/gps/next
GetNextPoint ==
    /\ last_request' = Request("gps/next")
    /\ IF paused
       THEN /\ response' = [kind |-> "paused", point |-> None]
            /\ UNCHANGED <<playback_state, delivered>>
       ELSE LET loaded == IF TraceIsFalsy(playback_state.trace)
                          THEN GetAllTraceCall(GetAllTraceArgs, gps_trace)
                          ELSE [raised |-> "", value |-> playback_state.trace]
                after == IF TraceIsFalsy(playback_state.trace) /\ loaded.raised = ""
                         THEN [trace |-> loaded.value, index |-> 0]
                         ELSE playback_state
            IN  IF loaded.raised # ""
                THEN /\ response' = [kind |-> "error", point |-> None]
                     /\ UNCHANGED <<playback_state, delivered>>
                ELSE IF "items" \notin DOMAIN after.trace
                THEN \* len(trace) of a coroutine object: TypeError
                     /\ playback_state' = after
                     /\ response' = [kind |-> "error", point |-> None]
                     /\ UNCHANGED delivered
                ELSE IF after.index >= Len(after.trace.items)
                THEN /\ playback_state' = after
                     /\ response' = [kind |-> "done", point |-> None]
                     /\ UNCHANGED delivered
                ELSE LET point == after.trace.items[after.index + 1]
                     IN  /\ playback_state' = [after EXCEPT !.index = @ + 1]
                         /\ response' = [kind |-> "point", point |-> Node(point)]
                         /\ delivered' = Append(delivered, point)
    /\ UNCHANGED <<paused, gps_trace>>

\* POST /api/play
PlaySimulation ==
    /\ last_request' = Request("play")
    /\ paused' = FALSE
    /\ response' = [kind |-> "status", point |-> None]
    /\ UNCHANGED <<playback_state, gps_trace, delivered>>

\* POST /api/pause
PauseSimulation ==
    /\ last_request' = Request("pause")
    /\ paused' = TRUE
    /\ response' = [kind |-> "status", point |-> None]
    /\ UNCHANGED <<playback_state, gps_trace, delivered>>

\* POST /api/reset
ResetSimulation ==
    /\ last_request' = Request("reset")
    /\ paused' = TRUE
    /\ playback_state' = [trace |-> List(<<>>), index |-> 0]
    /\ response' = [kind |-> "status", point |-> None]
    /\ delivered' = <<>>
    /\ UNCHANGED gps_trace

\* the server after start-up: the controller paused, nothing loaded, the table
\* holding the points ingested
InitPlayback ==
    /\ paused = TRUE
    /\ playback_state = [trace |-> List(<<>>), index |-> 0]
    /\ gps_trace \in SeqsUpTo(1 .. MaxPoints, MaxTrace)
    /\ response = [kind |-> "none", point |-> None]
    /\ last_request = [name |-> "none", paused |-> TRUE,
                       state |-> [trace |-> List(<<>>), index |-> 0]]
    /\ delivered = <<>>

\* no server running
PlaybackIdle ==
    /\ paused = TRUE
    /\ playback_state = [trace |-> List(<<>>), index |-> 0]
    /\ gps_trace = <<>>
    /\ response = [kind |-> "idle", point |-> None]
    /\ last_request = [name |-> "idle", paused |-> TRUE,
                       state |-> [trace |-> List(<<>>), index |-> 0]]
    /\ delivered = <<>>

\* ------------------------------------------------------------------ specifications

vars == <<astarVars, rrtVars, wrapVars, rsVars, tspVars, simVars, demVars, concVars, reuseVars, playVars>>

\* the variables each subsystem leaves alone
notAStar == <<rrtVars, wrapVars, rsVars, tspVars, simVars, demVars, concVars, reuseVars, playVars>>
notRRT == <<astarVars, wrapVars, rsVars, tspVars, simVars, demVars, concVars, reuseVars, playVars>>
notWrapper == <<astarVars, rrtVars, rsVars, tspVars, simVars, demVars, concVars, reuseVars, playVars>>
notRRTStar == <<astarVars, rrtVars, wrapVars, tspVars, simVars, demVars, concVars, reuseVars, playVars>>
notTsp == <<astarVars, rrtVars, wrapVars, rsVars, simVars, demVars, concVars, reuseVars, playVars>>
notSim == <<astarVars, rrtVars, wrapVars, rsVars, tspVars, demVars, concVars, reuseVars, playVars>>
notDem == <<astarVars, rrtVars, wrapVars, rsVars, tspVars, simVars, concVars, reuseVars, playVars>>
notConc == <<astarVars, rrtVars, wrapVars, rsVars, tspVars, simVars, demVars, reuseVars, playVars>>
notReuse == <<astarVars, rrtVars, wrapVars, rsVars, tspVars, simVars, demVars, concVars, playVars>>
notPlayback == <<astarVars, rrtVars, wrapVars, rsVars, tspVars, simVars, demVars, concVars, reuseVars>>

AStarNext ==
    \/ FindPathEntry /\ UNCHANGED notAStar
    \/ FindPathLoop /\ UNCHANGED notAStar

RRTNext ==
    \/ RRTFindPath /\ UNCHANGED notRRT
    \/ RRTPlanIteration /\ UNCHANGED notRRT
    \/ RRTPlanExhausted /\ UNCHANGED notRRT

WrapperNext ==
    \/ WrapperConstruct /\ UNCHANGED notWrapper
    \/ WrapperFindSegmentPath /\ UNCHANGED notWrapper

RRTStarNext ==
    \/ RRTStarInit /\ UNCHANGED notRRTStar
    \/ RRTStarStepFull /\ UNCHANGED notRRTStar
    \/ RRTStarStep /\ UNCHANGED notRRTStar

TspNext ==
    \/ ComputeCostMatrixCall /\ UNCHANGED notTsp
    \/ SolveTspChristofides /\ UNCHANGED notTsp
    \/ SolveTspChristofidesRaises /\ UNCHANGED notTsp
    \/ ReorderWaypoints /\ UNCHANGED notTsp

SimNext ==
    \/ SimStart /\ UNCHANGED notSim
    \/ SimPlanSegment /\ UNCHANGED notSim
    \/ SimWalkStep /\ UNCHANGED notSim
    \/ SimArrive /\ UNCHANGED notSim
    \/ SimFinish /\ UNCHANGED notSim

\* find_path on planners without elevation field
Init == InitAStarCall /\ RRTIdle /\ WrapperIdle /\ RRTStarIdle /\ TspIdle /\ SimIdle /\ DemIdle /\ ConcIdle /\ ReuseIdle /\ PlaybackIdle
Spec == Init /\ [][AStarNext]_vars

\* find_path on planners with an elevation field
InitAStarElev == InitAStarElevCall /\ RRTIdle /\ WrapperIdle /\ RRTStarIdle /\ TspIdle /\ SimIdle /\ DemIdle /\ ConcIdle /\ ReuseIdle /\ PlaybackIdle
SpecAStarElev == InitAStarElev /\ [][AStarNext]_vars

\* RRT.find_path
InitRRT == InitRRTCall /\ AStarIdle /\ WrapperIdle /\ RRTStarIdle /\ TspIdle /\ SimIdle /\ DemIdle /\ ConcIdle /\ ReuseIdle /\ PlaybackIdle
SpecRRT == InitRRT /\ [][RRTNext]_vars

\* PathPlannerWrapper: construction, then find_segment_path calls
InitWrapper == InitWrapperCall /\ AStarIdle /\ RRTIdle /\ RRTStarIdle /\ TspIdle /\ SimIdle /\ DemIdle /\ ConcIdle /\ ReuseIdle /\ PlaybackIdle
SpecWrapper == InitWrapper /\ [][WrapperNext]_vars

\* RRTStar: construction, then step calls
InitRRTStar == InitRRTStarCall /\ AStarIdle /\ RRTIdle /\ WrapperIdle /\ TspIdle /\ SimIdle /\ DemIdle /\ ConcIdle /\ ReuseIdle /\ PlaybackIdle
SpecRRTStar == InitRRTStar /\ [][RRTStarNext]_vars

\* generate_ordered_waypoints: cost matrix, tour, reordering
InitTsp == InitTspCall /\ AStarIdle /\ RRTIdle /\ WrapperIdle /\ RRTStarIdle /\ SimIdle /\ DemIdle /\ ConcIdle /\ ReuseIdle /\ PlaybackIdle
SpecTsp == InitTsp /\ [][TspNext]_vars

\* run_simulation
InitSim == InitSimCall /\ AStarIdle /\ RRTIdle /\ WrapperIdle /\ RRTStarIdle /\ TspIdle /\ DemIdle /\ ConcIdle /\ ReuseIdle /\ PlaybackIdle
SpecSim == InitSim /\ [][SimNext]_vars

DemNext ==
    \/ DemFuncCall /\ UNCHANGED notDem

\* dem_func
InitDem == InitDemCall /\ AStarIdle /\ RRTIdle /\ WrapperIdle /\ RRTStarIdle /\ TspIdle /\ SimIdle /\ ConcIdle /\ ReuseIdle /\ PlaybackIdle
SpecDem == InitDem /\ [][DemNext]_vars

ConcNext ==
    \/ \E k \in Callers : CallerSeeds(k) /\ UNCHANGED notConc
    \/ \E k \in Callers : DrawBias(k) /\ UNCHANGED notConc
    \/ \E k \in Callers : DrawX(k) /\ UNCHANGED notConc
    \/ \E k \in Callers : DrawY(k) /\ UNCHANGED notConc

\* two concurrent RRT.find_path calls, each seeded by its caller
InitConc == InitConcCall /\ AStarIdle /\ RRTIdle /\ WrapperIdle /\ RRTStarIdle /\ TspIdle /\ SimIdle /\ DemIdle /\ ReuseIdle /\ PlaybackIdle
SpecConc == InitConc /\ [][ConcNext]_vars

ReuseNext ==
    \/ \E t \in Threads : ReuseFindPathEntry(t) /\ UNCHANGED notReuse
    \/ \E t \in Threads : ReuseFindPathLoop(t) /\ UNCHANGED notReuse

\* find_path calls, in sequence and interleaved, on one AStarPlanner instance
InitReuse == InitReuseCall /\ AStarIdle /\ RRTIdle /\ WrapperIdle /\ RRTStarIdle /\ TspIdle /\ SimIdle /\ DemIdle /\ ConcIdle /\ PlaybackIdle
SpecReuse == InitReuse /\ [][ReuseNext]_vars

PlaybackNext ==
    \/ GetNextPoint /\ UNCHANGED notPlayback
    \/ PlaySimulation /\ UNCHANGED notPlayback
    \/ PauseSimulation /\ UNCHANGED notPlayback
    \/ ResetSimulation /\ UNCHANGED notPlayback

\* the playback endpoints of main.py, requests in any order
InitPlay == InitPlayback /\ AStarIdle /\ RRTIdle /\ WrapperIdle /\ RRTStarIdle /\ TspIdle /\ SimIdle /\ DemIdle /\ ConcIdle /\ ReuseIdle
SpecPlayback == InitPlay /\ [][PlaybackNext]_vars

\* ------------------------------------------------------------------ A*: reference notions

Sqrt2 == SqrtBisect(2 * Scale * Scale, 0, 2 * Scale)

IsUnitOffset(a, b) ==
    /\ Abs(b[1] - a[1]) <= 1
    /\ Abs(b[2] - a[2]) <= 1
    /\ a # b

\* cost of a move as the specification states it: 1 per orthogonal move, sqrt(2)
\* per diagonal move, plus elevation_penalty * |elevation difference|
MoveCost(a, b) ==
    (IF a[1] = b[1] \/ a[2] = b[2] THEN Scale ELSE Sqrt2)
    + (IF elevation = None THEN 0
       ELSE elevation_penalty * Abs(elevation.array[b] - elevation.array[a]))

RECURSIVE PathCost(_, _)
PathCost(p, i) == IF i >= Len(p) THEN 0 ELSE MoveCost(p[i], p[i + 1]) + PathCost(p, i + 1)

\* a move from a onto b is legal: unit offset, b in bounds and unoccupied
LegalMove(a, b) == IsUnitOffset(a, b) /\ InBounds(shape, b) /\ grid[b] = 0

MinOf(S) == CHOOSE x \in S : \A y \in S : x <= y

\* the cost recorded for cell n in a set D of <<cell, cost>> pairs
CostIn(D, n) == (CHOOSE p \in D : p[1] = n)[2]

CellsIn(D) == {p[1] : p \in D}

RECURSIVE Relax(_, _)
\* exhaustive search: up to k rounds of relaxation of the cheapest known cost of
\* every cell reached so far, D being the set of <<cell, cost>> pairs
Relax(D, k) ==
    LET from == CellsIn(D)
        next == from \cup {n \in Cells(shape) : \E m \in from : LegalMove(m, n)}
        D2 == {<<n, MinOf({CostIn(D, m) + MoveCost(m, n) :
                             m \in {x \in from : LegalMove(x, n)}}
                          \cup (IF n \in from THEN {CostIn(D, n)} ELSE {}))>> :
                 n \in next}
    IN  IF k = 0 \/ D2 = D THEN D ELSE Relax(D2, k - 1)

\* cheapest cost of a sequence of legal moves from start to each reachable cell
MinCostSet == Relax({<<start, 0>>}, Cardinality(Cells(shape)))

Reachable == goal \in CellsIn(MinCostSet)

\* cheapest cost of a sequence of legal moves from start to goal, if there is one
MinCostToGoal == CostIn(MinCostSet, goal)

Returned == pc = "done" /\ result # None

\* the returned path
Path == result.items

\* ------------------------------------------------------------------ A*: claims

\* C1: without elevation field, the path find_path returns has the minimum total
\* cost (1 per orthogonal move, sqrt(2) per diagonal move) over all sequences of
\* legal 8-connected moves from start to goal
C1_Optimal == Returned => Reachable /\ PathCost(Path, 1) = MinCostToGoal

\* a returned path that detours around a blocked cell and uses a diagonal move
C1_Witness ==
    /\ Returned
    /\ elevation = None
    /\ Len(Path) >= 4
    /\ \E n \in Cells(shape) : grid[n] # 0
    /\ \E i \in 1 .. Len(Path) - 1 :
          Path[i][1] # Path[i + 1][1] /\ Path[i][2] # Path[i + 1][2]
    /\ PathCost(Path, 1) > Heuristic(goal, start) + Scale

\* C2: consecutive points of a returned path differ by one of the 8 unit offsets
\* and every move lands on an in-bounds, unoccupied cell
C2_LegalMoves ==
    Returned => \A i \in 1 .. Len(Path) - 1 : LegalMove(Path[i], Path[i + 1])

C2_Witness ==
    /\ Returned
    /\ Len(Path) >= 3
    /\ \E n \in Cells(shape) : grid[n] # 0 /\ n # start

\* C3: for start # goal, find_path returns None exactly when no sequence of legal
\* moves leads from start to goal, and then the frontier is exhausted
C3_NoneIffUnreachable ==
    (pc = "done" /\ start # goal) =>
        /\ (result = None) <=> ~Reachable
        /\ (result = None) => open_set = {}

\* a wall: start and goal both free, yet no path, after a real search
C3_Witness ==
    /\ pc = "done"
    /\ start # goal
    /\ result = None
    /\ grid[start] = 0
    /\ grid[goal] = 0
    /\ iters >= 3

\* C4: a returned path is non-empty, starts at start and ends at goal
C4_Endpoints ==
    Returned => Len(Path) >= 1 /\ Path[1] = start /\ Path[Len(Path)] = goal

C4_Witness == Returned /\ Len(Path) >= 3 /\ Path[1] = start /\ start # goal

\* C5: if start equals goal find_path returns [start] at once, whatever the grid
\* holds, without a single iteration of the search loop
C5_Trivial ==
    (pc = "done" /\ start = goal) =>
        /\ result = List(<<start>>)
        /\ iters = 0
        /\ visited = {}
        /\ open_set = {}

\* the trivial case on an occupied cell
C5_Witness == pc = "done" /\ start = goal /\ grid[start] # 0 /\ result = List(<<start>>)

\* C6: with an elevation field and elevation_penalty >= 0 every recorded cost is
\* the parent's cost plus Euclidean length plus elevation_penalty * |elevation
\* difference|; a closed node carries its cheapest cost and the straight-line
\* estimate from it does not exceed the cheapest cost to the goal; and the
\* returned path has minimum total cost under that edge cost
C6_ElevOptimal ==
    /\ \A n \in DOMAIN came_from :
          g_score[n] = g_score[came_from[n]] + MoveCost(came_from[n], n)
    /\ pc = "loop" =>
          LET best == MinCostSet
          IN  \A n \in visited :
                 /\ g_score[n] = CostIn(best, n)
                 /\ goal \in CellsIn(best) =>
                       g_score[n] + Heuristic(goal, n) <= CostIn(best, goal)
    /\ Returned => Reachable /\ PathCost(Path, 1) = MinCostToGoal

\* on a grid without obstacles the returned path leaves the row that start and
\* goal share: the straight route climbs, the cheapest one goes around
C6_Witness ==
    /\ Returned
    /\ elevation # None
    /\ elevation_penalty > 0
    /\ \A n \in Cells(shape) : grid[n] = 0
    /\ start[1] = goal[1]
    /\ \E i \in 1 .. Len(Path) : Path[i][1] # start[1]
    /\ PathCost(Path, 1) > Heuristic(goal, start)

\* ------------------------------------------------------------------ RRT: claims

RRTReturned == rrt_pc = "done" /\ rrt_result # None

RRTPath == rrt_result.items

\* the point lies inside the map and on a cell of occupancy value 0
InFreeSpace(point) ==
    /\ 0 <= point[1] /\ point[1] < rrt_shape[1] * Scale
    /\ 0 <= point[2] /\ point[2] < rrt_shape[2] * Scale
    /\ rrt_map[<<point[1] \div Scale, point[2] \div Scale>>] = 0

\* C7: every RRT planning call terminates: it runs at most max_iter iterations of
\* the loop and then returns a path or None; it never hangs in the reconstruction
C7_Terminates == rrt_iter <= max_iter /\ rrt_pc # "hung"

\* C8: a returned path ends within step_size of the goal, and the iteration that
\* adds a valid point within step_size of the goal ends the call with a path
C8_EndsNearGoal ==
    /\ RRTReturned =>
          DistSq(RRTPath[Len(RRTPath)], rrt_goal) <= step_size * step_size
    /\ goal_hit => RRTReturned

\* C9: every node of a returned path, the start included, lies in free space
C9_PathInFreeSpace ==
    RRTReturned => \A i \in 1 .. Len(RRTPath) : InFreeSpace(RRTPath[i])

\* ------------------------------------------------------------------ PathPlannerWrapper: claims

\* the variant names the specification supports
SupportedVariants == {<<"a", "s", "t", "a", "r">>, <<"r", "r", "t">>, <<"r", "r", "t", "*">>, <<"g", "e", "o", "_", "r", "r", "t">>, <<"g", "e", "o", "_", "r", "r", "t", "*">>}

\* the two strings are equal up to the case of their letters
SameIgnoringCase(a, b) ==
    /\ Len(a) = Len(b)
    /\ \A i \in 1 .. Len(a) :
          \/ a[i] = b[i]
          \/ \E k \in 1 .. Len(UpperCase) : {a[i], b[i]} = {UpperCase[k], LowerCase[k]}

IsSupported(name) == \E v \in SupportedVariants : SameIgnoringCase(name, v)

\* C10: constructing the wrapper with a planner_type outside the supported names
\* (case-insensitively) raises at construction, yields no object and substitutes
\* no default, so find_segment_path never runs with an unsupported variant
C10_UnsupportedFailsAtConstruction ==
    /\ w_pc \in {"constructed", "failed"} =>
          /\ (w_pc = "failed") <=> ~IsSupported(w_arg)
          /\ w_pc = "failed" =>
                wrapper = None /\ w_raised = "ValueError" /\ w_calls = 0
          /\ w_pc = "constructed" =>
                /\ wrapper # None
                /\ wrapper.planner_type \in SupportedVariants
                /\ SameIgnoringCase(w_arg, wrapper.planner_type)
    /\ w_calls > 0 => IsSupported(w_arg) /\ w_raised # "ValueError"

\* the constructor was called with "rrt_star" and raised
C10_Witness ==
    /\ w_pc = "failed"
    /\ w_arg = <<"r", "r", "t", "_", "s", "t", "a", "r">>
    /\ wrapper = None
    /\ w_raised = "ValueError"

\* C11: for every supported variant name find_segment_path completes by returning
\* a path or None; it raises no exception, whatever the constructor of the
\* variant's planner class expects
C11_ReturnsPathOrNone ==
    (w_pc = "constructed" /\ w_calls > 0) =>
        /\ w_raised = ""
        /\ w_result = None \/ Len(w_result.items) >= 1

\* ------------------------------------------------------------------ RRT*: claims

\* C12: A*, RRT and RRT* agree on every cell a validity test looks up: the cell
\* may be entered exactly when its occupancy value is 0
C12_SameOccupancyConvention ==
    \A c \in rs_checks :
        /\ c.answer <=> (rs_map[c.cell] = 0)
        /\ c.answer <=> Legal(rs_map, rs_shape, c.cell)
        /\ c.answer <=> IsCollisionFree(rs_map, rs_shape, CellPoint(c.cell))

\* the points sampled along the segment from parent to point: max(int(2 * length), 1)
\* points evenly spaced from parent to point, both ends included
EdgeSamples(parent, point) ==
    LET num == Max2((2 * Distance(parent, point)) \div Scale, 1)
    IN  IF num = 1 THEN {parent, point}
        ELSE {<<parent[1] + TruncDiv(k * (point[1] - parent[1]), num - 1),
                parent[2] + TruncDiv(k * (point[2] - parent[2]), num - 1)>> :
                k \in 0 .. num - 1}

\* C13: a node joins the tree only if every point sampled along the segment from
\* its parent passes the point test (in bounds, unoccupied); here for parents that
\* pass the test themselves
C13_EdgeValidated ==
    (rs_added # None /\ IsValidPoint(rs_map, rs_shape, rs_added.parent, None)) =>
        \A q \in EdgeSamples(rs_added.parent, rs_added.node) :
            IsValidPoint(rs_map, rs_shape, q, None)

\* ------------------------------------------------------------------ tour solver: claims

\* C14: the tour of n waypoints is a list of exactly n indices holding each of
\* 0..n-1 exactly once, and the ordered waypoint list holds n waypoints
C14_TourIsPermutation ==
    /\ tsp_pc \in {"tour", "done"} =>
          /\ Len(tsp_tour.items) = Len(waypoints)
          /\ \A i \in 0 .. Len(waypoints) - 1 :
                Cardinality({k \in 1 .. Len(tsp_tour.items) : tsp_tour.items[k] = i}) = 1
    /\ tsp_pc = "done" => Len(ordered_waypoints.items) = Len(waypoints)

SupportedMetrics == {"euclidean", "geodesic"}

\* C15: for a metric name other than 'euclidean' and 'geodesic' the call of
\* compute_cost_matrix raises, whatever the waypoint list, and returns no matrix
C15_UnsupportedMetricFails ==
    (tsp_pc # "call" /\ metric \notin SupportedMetrics) =>
        /\ tsp_pc = "failed"
        /\ tsp_raised = "ValueError"
        /\ cost_matrix = None

\* r is the length of the offset (dx, dy) in units of 1/Scale, rounded down
IsLength(r, dx, dy) ==
    /\ r >= 0
    /\ r * r <= (dx * dx + dy * dy) * Scale * Scale
    /\ (r + 1) * (r + 1) > (dx * dx + dy * dy) * Scale * Scale

\* d is the distance of u and v under metric m: the Euclidean length over the raw
\* coordinates, or the length in degrees of arc converted to metres
IsDistance(d, m, u, v) ==
    \/ /\ m = "euclidean"
       /\ IsLength(d, u[1] - v[1], u[2] - v[2])
    \/ /\ m = "geodesic"
       /\ \E r \in 0 .. 2 * (MaxCoord + 1) * Scale :
             /\ IsLength(r, u[1] - v[1], u[2] - v[2])
             /\ d = (MetersPerDegree * r) \div Scale

\* C16: for a supported metric compute_cost_matrix returns an n-by-n matrix with
\* matrix[i][j] = matrix[j][i] = distance(waypoints[i], waypoints[j]) and a zero
\* diagonal
C16_SymmetricZeroDiagonal ==
    (tsp_pc # "call" /\ metric \in SupportedMetrics) =>
        /\ cost_matrix # None
        /\ LET n == Len(waypoints)
               mx == cost_matrix.array
           IN  /\ DOMAIN mx = 0 .. n - 1
               /\ \A i \in 0 .. n - 1 :
                     /\ DOMAIN mx[i] = 0 .. n - 1
                     /\ mx[i][i] = 0
                     /\ \A j \in 0 .. n - 1 :
                           /\ mx[i][j] = mx[j][i]
                           /\ IsDistance(mx[i][j], metric, waypoints[i + 1], waypoints[j + 1])

\* a geodesic matrix of three distinct waypoints, two of its distances different
C16_Witness ==
    /\ tsp_pc = "matrix"
    /\ metric = "geodesic"
    /\ Len(waypoints) = 3
    /\ \A i \in 1 .. 3 : \A j \in 1 .. 3 : i # j => waypoints[i] # waypoints[j]
    /\ cost_matrix.array[0][1] # cost_matrix.array[0][2]
    /\ cost_matrix.array[0][1] > 0
    /\ cost_matrix.array[0][1] = cost_matrix.array[1][0]

\* ------------------------------------------------------------------ trajectory synthesis: claims

\* C17: run_simulation terminates: the walk towards a path point never steps
\* back and forth over it forever
C17_WalkTerminates == sim_pc # "hung"

\* the path the planner returns for waypoint pair i (from 0)
PlannedPath(i) ==
    FindSegmentPath(SimPlanner(sim_grid), waypoints_rc[i + 1], waypoints_rc[i + 2]).value

\* the pairs the loop has taken up so far
PairsTaken ==
    (0 .. seg_i - 1) \cup (IF sim_pc \in {"walk", "hung"} THEN {seg_i} ELSE {})

\* the skip policy of the loop over waypoint pairs: a pair without path adds no
\* point and raises nothing, the pairs are taken up in waypoint order, and the
\* trace holds, in that order, the points of the planned pairs
SkipPolicy ==
    sim_pc \in {"plan", "walk", "done", "hung"} =>
        /\ sim_raised = ""
        /\ planned \cup skipped = PairsTaken
        /\ \A i \in skipped : PlannedPath(i) = None
        /\ \A i \in planned : PlannedPath(i) # None
        /\ \A k \in 1 .. Len(all_points) :
              /\ all_points[k].segment \in planned
              /\ k > 1 => all_points[k - 1].segment <= all_points[k].segment
        /\ sim_pc = "done" => PairsTaken = 0 .. Len(waypoints_rc) - 2

C19_TimestampsOrdered ==
    \A k \in 2 .. Len(all_points) : all_points[k - 1].ts <= all_points[k].ts

\* C20: consecutive points of the trace carry timestamps one sample interval
\* apart
C20_IntervalSpacing ==
    \A k \in 2 .. Len(all_points) : all_points[k].ts - all_points[k - 1].ts = interval_ms

\* C21: every point of a generated trace has a heading in [0, 360) degrees,
\* whichever way the agent travels
C21_HeadingInRange ==
    \A k \in 1 .. Len(all_points) :
        /\ all_points[k].heading >= 0
        /\ all_points[k].heading < 360 * Scale

\* ------------------------------------------------------------------ elevation lookup: claims

\* the position maps to a row or column outside the grid extents
OutsideExtents(elev, lat, lon) == RowCol(lat, lon) \notin Cells(elev.shape)

\* C22: the elevation lookup at a position whose row or column lies outside the
\* grid extents, on any side, returns the fallback 0.0 and propagates no error
C22_OutOfBoundsFallback ==
    (dem_pc # "call" /\ dem_pc # "idle"
        /\ OutsideExtents(dem_elevation, dem_lat, dem_lon)) =>
        (dem_pc = "done" /\ dem_value = 0)

\* ------------------------------------------------------------------ concurrent sampling: claims

RECURSIVE AloneSamples(_, _, _)
\* the first n samples sample_point returns from generator state st when no
\* other caller draws in between
AloneSamples(st, n, gl) ==
    IF n = 0 THEN <<>>
    ELSE LET u == RngNext(st)
             x == RngNext(u)
             y == RngNext(x)
         IN  IF AboveBias(u) THEN <<gl>> \o AloneSamples(u, n - 1, gl)
             ELSE << <<UniformDraw(x, ConcShape[1]), UniformDraw(y, ConcShape[2])>> >>
                  \o AloneSamples(y, n - 1, gl)

\* C23: the samples each of two concurrent planning calls draws are those its
\* own seed determines, the same as when the call runs alone
C23_NoInterference ==
    \A k \in Callers :
        callers[k].pc \notin {"idle", "seed"} =>
            callers[k].samples =
                AloneSamples(Seeded(callers[k].seed), Len(callers[k].samples), conc_goal)

\* ------------------------------------------------------------------ A*, one planner, many calls: claims

\* a planner freshly constructed with the same arguments
FreshPlanner == AStarPlanner(ru_args.grid, ru_args.elevation, ru_args.elevation_penalty)

RECURSIVE RootWalk(_, _, _)
\* the node without parent that following parent links from n ends at, or
\* <<-1, -1>> when the walk outlives fuel links
RootWalk(cf, n, fuel) ==
    IF n \notin DOMAIN cf THEN n
    ELSE IF fuel = 0 THEN <<-1, -1>>
    ELSE RootWalk(cf, cf[n], fuel - 1)

\* C25: throughout a search came_from is a tree rooted at start (start has no
\* parent, every recorded node has one parent, a cell of the grid, and its
\* parent links lead to start), and a returned path repeats no cell
C25_ParentTree ==
    /\ start \notin DOMAIN came_from
    /\ \A n \in DOMAIN came_from :
          /\ came_from[n] \in Cells(shape)
          /\ came_from[n] # n
          /\ RootWalk(came_from, n, Cardinality(DOMAIN came_from)) = start
    /\ Returned => \A i \in 1 .. Len(Path), j \in 1 .. Len(Path) :
                       i # j => Path[i] # Path[j]

\* a search that recorded parents for five cells or more, some of them off the
\* path it returned, and returned a path of four cells or more
C25_Witness ==
    /\ Returned
    /\ Len(Path) >= 4
    /\ Cardinality(DOMAIN came_from) >= 5
    /\ \E n \in DOMAIN came_from : \A i \in 1 .. Len(Path) : Path[i] # n

\* ------------------------------------------------------------------ RRT*: bookkeeping

\* C26: every node appended to the node list has an edge (parent, node) in the
\* edge list, and when a new node lands within target_radius of the goal the
\* path is set to a path from start to goal
C26_EdgesRecorded ==
    /\ \A i \in 2 .. Len(nodes) : \E e \in 1 .. Len(edges) : edges[e][2] = nodes[i]
    /\ (rs_added # None /\ Distance(nodes[Len(nodes)], rs_goal) <= TargetRadius) =>
          /\ rs_path # None
          /\ rs_path.items[1] = rs_start
          /\ rs_path.items[Len(rs_path.items)] = rs_goal

\* ------------------------------------------------------------------ RRT: parent links

RECURSIVE TreeRoot(_, _, _)
\* the node whose parent is None that following parents from n ends at, or
\* None when the walk outlives fuel links
TreeRoot(d, n, fuel) ==
    IF d.parent[n] = None THEN Node(n)
    ELSE IF fuel = 0 THEN None
    ELSE TreeRoot(d, d.parent[n].node, fuel - 1)

\* C27: at every point of a planning call the node-to-parent mapping is a tree
\* rooted at start: the parent of start is none, and from every node the parents
\* lead to start, so that no node is its own parent or ancestor
C27_TreeRootedAtStart ==
    rrt_pc \in {"plan", "done", "hung"} =>
        /\ HasKey(tree, rrt_start)
        /\ tree.parent[rrt_start] = None
        /\ \A n \in DOMAIN tree.parent :
              TreeRoot(tree, n, Len(tree.keys)) = Node(rrt_start)

\* ------------------------------------------------------------------ playback: claims

\* the last request was gps/next and found the controller playing
NextWhilePlaying == last_request.name = "gps/next" /\ ~last_request.paused

\* the number of rows of the trace loaded
LoadedLen ==
    IF "items" \in DOMAIN playback_state.trace THEN Len(playback_state.trace.items) ELSE 0

\* C28: the playback index stays within 0..len(trace); gps/next while playing
\* returns the points of the trace in order, none twice and none skipped, and
\* reports done with no point once all of them have been returned
C28_InOrderThenDone ==
    /\ playback_state.index \in 0 .. LoadedLen
    /\ Len(delivered) <= Len(gps_trace)
    /\ \A k \in 1 .. Len(delivered) : delivered[k] = gps_trace[k]
    /\ NextWhilePlaying =>
          \/ /\ response.kind = "point"
             /\ response.point = Node(gps_trace[Len(delivered)])
          \/ /\ response = [kind |-> "done", point |-> None]
             /\ Len(delivered) = Len(gps_trace)

\* C29: gps/next while paused returns no point and leaves index and trace as
\* they were; play and pause leave the index as it was; so gps/next after play
\* returns the point at the index the pause left, the next undelivered one
C29_PausedFrame ==
    /\ (last_request.name = "gps/next" /\ last_request.paused) =>
          /\ response = [kind |-> "paused", point |-> None]
          /\ playback_state = last_request.state
    /\ last_request.name \in {"play", "pause"} => playback_state = last_request.state
    /\ (NextWhilePlaying /\ last_request.state.index < Len(gps_trace)) =>
          /\ response.kind = "point"
          /\ response.point = Node(gps_trace[last_request.state.index + 1])

\* C30: after reset the controller is paused, the index is 0 and no trace is
\* cached; the first gps/next after a following play reloads the trace and
\* returns its first point
C30_ResetRestarts ==
    /\ last_request.name = "reset" =>
          /\ paused
          /\ playback_state = [trace |-> List(<<>>), index |-> 0]
    /\ (NextWhilePlaying /\ TraceIsFalsy(last_request.state.trace) /\ gps_trace # <<>>) =>
          /\ playback_state = [trace |-> List(gps_trace), index |-> 1]
          /\ response = [kind |-> "point", point |-> Node(gps_trace[1])]

====
